---- MODULE Spec2Model ----
(***************************************************************************)
(* The prefix-expansion crawlers of the repository, as state machines.     *)
(*                                                                         *)
(*   prog = "final"      final-solution.js       extractNames              *)
(*   prog = "optimized"  optimized-extractor.js  extractAllNames           *)
(*   prog = "part_002"   unnamed/part_002        main, before it has       *)
(*                                               selected its crawl        *)
(*   prog = "efficient"  unnamed/part_002        extractNamesEfficiently   *)
(*   prog = "sequential" unnamed/part_002        extractAllNames           *)
(*   prog = "rules"      the expansion rule called on its own              *)
(*   prog = "merge"      the merge of processPrefix called on its own      *)
(*   prog = "agree"      the expansion rules of three scripts, side by side *)
(*                                                                         *)
(* A prefix and a name are sequences of one-character strings.  Every      *)
(* await of the JavaScript code is a point where the event loop may run    *)
(* another task, so every action below is one synchronous run of code      *)
(* between two awaits.  The remote endpoint is the environment: the        *)
(* variable endpoint fixes, for a whole run, how it answers.               *)
(*                                                                         *)
(* A run starts at the call of main.  main of final-solution.js calls the  *)
(* crawl at once.  main of optimized-extractor.js first awaits             *)
(* exploreAPIBehavior and main of part_002 first awaits determineAPILimits *)
(* and lets its result select the crawl; both send probe requests that are *)
(* counted in totalRequests, and during them phase is "probe".  The        *)
(* request times that processBatch records for analyzeRatePattern only     *)
(* feed a log line and are left out.                                       *)
(***************************************************************************)
EXTENDS Integers, Sequences, FiniteSets, TLC

VARIABLES
  prog,           \* which script runs, and which crawl of unnamed/part_002
  endpoint,       \* the endpoint's behaviour during this run
  k,              \* the result size of the "shallow" endpoint; the 429
                  \* answers the "throttledOften" one gives a long prefix
  phase,          \* position of main: probe (before the crawl), and of the
                  \* crawl loop: loop, await, complete, aborted
  queue,          \* the frontier: queue / the rest of prefixes / currentBatch
  nextBatch,      \* nextBatch of processBatch and of extractNamesEfficiently
  tasks,          \* the processPrefix calls of the batch given to
                  \* Promise.all; in phase probe, the probe fetches under way
  visited,        \* processedPrefixes / prefixesExplored
  uniqueNames,    \* uniqueNames / totalNames
  totalRequests,  \* totalRequests
  snapshot,       \* what the last write of OUTPUT_FILE holds
  started,        \* history: per prefix, the fetches started at the initial attempt
  fetched,        \* history: the fetches that ended, with what they returned
  hits,           \* environment: non-empty answers given to the crawl so far
  throttles,      \* environment: 429/503 answers given so far
  faults,         \* environment: other failures given so far
  received,       \* environment: the HTTP requests answered so far
  activeRequests, \* activeRequests of unnamed/part_002
  probed,         \* the fetches the probe of main has started so far
  limit,          \* unnamed/part_002: possibleResultLimit, as the parallel
                  \* test of determineAPILimits found it
  args,           \* the arguments of a function called on its own
  ret             \* what that call returned: <<>> before it, <<value>> after

vars == <<prog, endpoint, k, phase, queue, nextBatch, tasks, visited,
          uniqueNames, totalRequests, snapshot, started, fetched, hits,
          throttles, faults, received, activeRequests, probed, limit, args,
          ret>>

\* what no step of a batched crawl changes
env == <<prog, endpoint, k, activeRequests, probed, limit, args, ret>>

----------------------------------------------------------------------------
(* Bounds of the model *)

\* the alphabet is cut to its first AlphabetSize letters
AlphabetSize == 2
\* non-empty answers an "any" endpoint gives the crawl of one run
MaxHits == 1
\* 429/503 answers an "any" endpoint gives in one run
MaxThrottles == 1
\* other failures (network error, malformed body) an "any" endpoint gives
MaxFaults == 1
\* requests one fetch issues in the scripts whose retry has no limit
MaxAttempts == 8
\* longest prefix given to a function called on its own
MaxPrefixLen == 4
\* longest result array given to a function called on its own
MaxResults == 11
\* longest result array given to the merge called on its own
MaxMergeLen == 2
\* longest prefix a crawl without a depth limit is let to fetch
MaxDepth == 4

(* Constants of the programs *)

MAX_CONCURRENCY == 3
CONCURRENCY_LIMIT == 5
MAX_CONCURRENT == 5
RetryLimit == 5
CheckpointEvery == 50
ResultCap == 10

\* null and undefined of JavaScript, where a number is expected
Null == -1

Letters == <<"a", "b", "c", "d", "e", "f", "g", "h", "i", "j", "k", "l", "m",
             "n", "o", "p", "q", "r", "s", "t", "u", "v", "w", "x", "y", "z">>

ALPHABET == SubSeq(Letters, 1, AlphabetSize)

Min(a, b) == IF a < b THEN a ELSE b

\* mutant: a two-letter prefix is seeded as well
Seeds_WithPair ==
  [i \in 1..Len(ALPHABET) + 1 |->
     IF i <= Len(ALPHABET) THEN <<ALPHABET[i]>> ELSE <<ALPHABET[1], ALPHABET[1]>>]

\* ALPHABET.split('')
Seeds == [i \in 1..Len(ALPHABET) |-> <<ALPHABET[i]>>]

\* mutant: nextPrefixes.push(prefix) in place of push(prefix + char)
Children_Self(prefix) == [i \in 1..Len(ALPHABET) |-> prefix]

\* for (const char of ALPHABET) nextPrefixes.push(prefix + char)
Children(prefix) == [i \in 1..Len(ALPHABET) |-> Append(prefix, ALPHABET[i])]

RECURSIVE Flatten(_)
\* [].concat(...arrays)
Flatten(arrays) ==
  IF arrays = <<>> THEN <<>> ELSE Head(arrays) \o Flatten(Tail(arrays))

Range(s) == {s[i] : i \in DOMAIN s}

\* mutant: the request is sent without being counted
Counted_Not(n) == n

\* totalRequests++
Counted(n) == n + 1

\* mutant: the set is built anew from the array
AddAll_Replace(names, array) == Range(array)

\* array.forEach(name => uniqueNames.add(name))
AddAll(names, array) == names \cup Range(array)

----------------------------------------------------------------------------
(* The endpoint *)

\* the i-th entry of the array the endpoint returns for prefix: names that
\* start with the prefix's first letter, so that different prefixes share names
Entry(prefix, i) ==
  LET first == IF prefix = <<>> THEN ALPHABET[1] ELSE prefix[1]
  IN IF i % 2 = 1 THEN <<first, "x">> ELSE Append(prefix, "y")

\* an array of n names for prefix
Names(prefix, n) == [i \in 1..n |-> Entry(prefix, i)]

RECURSIVE StringsOfLen(_)
\* the sequences of n letters of the alphabet, in alphabetical order
StringsOfLen(n) ==
  IF n = 0 THEN << <<>> >>
  ELSE LET shorter == StringsOfLen(n - 1)
       IN Flatten([i \in DOMAIN shorter |->
                     [j \in DOMAIN ALPHABET |-> Append(shorter[i], ALPHABET[j])]])

\* the vocabulary of the "vocabulary" endpoint, in the order the endpoint
\* lists it: the first letter three times, followed by up to three letters
VocabularySeq ==
  LET a == ALPHABET[1]
      tails == StringsOfLen(0) \o StringsOfLen(1) \o StringsOfLen(2)
                 \o StringsOfLen(3)
  IN [i \in DOMAIN tails |-> <<a, a, a>> \o tails[i]]

\* name starts with prefix
StartsWith(name, prefix) ==
  Len(name) >= Len(prefix) /\ SubSeq(name, 1, Len(prefix)) = prefix

\* what the "vocabulary" endpoint returns for prefix: the names of the
\* vocabulary that start with it, cut at the cap of 10 results
Matches(prefix) ==
  LET all == SelectSeq(VocabularySeq, LAMBDA name : StartsWith(name, prefix))
  IN SubSeq(all, 1, Min(ResultCap, Len(all)))

\* the requests the fetch of prefix that awaits an answer has sent, the
\* awaited one included
Asked(prefix) ==
  LET waiting == {i \in DOMAIN tasks :
                    tasks[i].prefix = prefix /\ tasks[i].pc = "request"}
  IN IF waiting = {} THEN 0 ELSE tasks[CHOOSE i \in waiting : TRUE].issued

\* the answers the endpoint may give to one request for prefix: ok is a 200
\* with an array of names, malformed a 200 whose body is no array (an object
\* with a results field), throttled a 429 or 503, error any other failure.
\* The "throttledTwice" endpoint answers 429 to the first two requests of
\* every fetch and then succeeds with two names; the "vocabulary" endpoint
\* never fails and answers with the names of its vocabulary; the
\* "throttledOften" endpoint answers 429 to the first four requests of a
\* fetch, to the first k for a three-letter prefix, and then succeeds; the
\* "wide" endpoint never fails and answers every prefix with one name; the
\* "endless" endpoint never fails and answers a prefix of one letter, and a
\* prefix made of the first letter alone, however long, with a full page of
\* 10 names, any other prefix with none

\* the array an endpoint whose answer depends on the prefix alone returns
\* for it once it answers with success
Page(prefix) ==
  CASE endpoint = "empty" -> <<>>
    [] endpoint = "shallow" -> IF Len(prefix) <= 2 THEN Names(prefix, k) ELSE <<>>
    [] endpoint \in {"throttledTwice", "throttledOften"} -> Names(prefix, 2)
    [] endpoint = "vocabulary" -> Matches(prefix)
    [] endpoint = "wide" -> Names(prefix, 1)
    [] endpoint = "endless" ->
         IF Len(prefix) = 1 \/ \A i \in DOMAIN prefix : prefix[i] = ALPHABET[1]
         THEN Names(prefix, ResultCap) ELSE <<>>

Answers(prefix) ==
  CASE endpoint = "any" ->
         {[kind |-> "ok", data |-> Names(prefix, n)] :
            n \in IF hits < MaxHits THEN {0, ResultCap} ELSE {0}}
         \cup (IF throttles < MaxThrottles
               THEN {[kind |-> "throttled", data |-> <<>>]} ELSE {})
         \cup (IF faults < MaxFaults
               THEN {[kind |-> "error", data |-> <<>>],
                     [kind |-> "malformed", data |-> <<>>]} ELSE {})
    [] endpoint \in {"empty", "shallow", "vocabulary", "wide", "endless"} ->
         {[kind |-> "ok", data |-> Page(prefix)]}
    [] endpoint = "throttleAll" -> {[kind |-> "throttled", data |-> <<>>]}
    [] endpoint = "throttledTwice" ->
         IF Asked(prefix) <= 2 THEN {[kind |-> "throttled", data |-> <<>>]}
         ELSE {[kind |-> "ok", data |-> Page(prefix)]}
    [] endpoint = "throttledOften" ->
         IF Asked(prefix) <= (IF Len(prefix) = 3 THEN k ELSE 4)
         THEN {[kind |-> "throttled", data |-> <<>>]}
         ELSE {[kind |-> "ok", data |-> Page(prefix)]}

\* the environment's bookkeeping of an answer; MaxHits bounds the crawl, so
\* the names given to a probe are not counted
Account(answer) ==
  /\ hits' = IF /\ endpoint = "any" /\ answer.kind = "ok"
                /\ answer.data # <<>> /\ phase # "probe"
             THEN hits + 1 ELSE hits
  /\ throttles' = IF endpoint = "any" /\ answer.kind = "throttled"
                  THEN throttles + 1 ELSE throttles
  /\ faults' = IF endpoint = "any"
                  /\ answer.kind \in {"error", "malformed"}
               THEN faults + 1 ELSE faults
  /\ received' = received + 1

----------------------------------------------------------------------------
(* Tasks: one processPrefix call of a batch *)

\* retryCount is makeRequest's parameter, attempt fetchWithThrottle's; issued
\* counts the HTTP requests of the call; outcome tells how its fetch ended
\* (ok, skip: retries used up, error, malformed; none: no fetch ended);
\* next is the array the call returns; waits lists the backoff delays, in
\* milliseconds, the call has slept or is sleeping; count is results.length
\* as a callback of the parallel test of determineAPILimits returns it
Task(prefix, pc) ==
  [prefix |-> prefix, pc |-> pc, retryCount |-> 0, attempt |-> 0,
   issued |-> 0, waits |-> <<>>, outcome |-> "none", next |-> <<>>,
   count |-> 0]

\* the crawl function has been called
Crawling == phase # "probe"

InFlightPcs == {"sleep", "request", "backoff"}

\* the calls of the batch that have not returned yet
InFlight == {i \in DOMAIN tasks : tasks[i].pc \in InFlightPcs}

\* mutant: Promise.race in place of Promise.all
Settled_Any == \E i \in DOMAIN tasks : tasks[i].pc = "done"

\* Promise.all of the batch has resolved
Settled == \A i \in DOMAIN tasks : tasks[i].pc = "done"

\* mutant: a wait that blocks the event loop suspends every call
Suspends_All(i, j) == TRUE

\* await sleep(ms) in call i suspends call j: sleep waits on a timer, so it
\* suspends the call that awaits it and no other
Suspends(i, j) == i = j

\* no wait of another call keeps call j from running
Free(j) ==
  \A i \in DOMAIN tasks \ {j} : tasks[i].pc = "backoff" => ~Suspends(i, j)

\* the visited guard of processPrefix: true when the call goes on to fetch
PassesGuard(seen, prefix) == prefix \notin seen

RECURSIVE Launch(_, _)
\* batch.map(prefix => processPrefix(prefix)): each call runs, in batch order,
\* up to its first await; it returns [] at once when the prefix is visited
Launch(batch, seen) ==
  IF batch = <<>> THEN [tasks |-> <<>>, visited |-> seen]
  ELSE LET p == Head(batch)
           pass == PassesGuard(seen, p)
           rest == Launch(Tail(batch), IF pass THEN seen \cup {p} ELSE seen)
       IN [tasks |-> <<Task(p, IF pass THEN "sleep" ELSE "done")>> \o rest.tasks,
           visited |-> rest.visited]

\* history: one more fetch of prefix started at the initial attempt
Count(log, prefix) ==
  IF prefix \in DOMAIN log THEN [log EXCEPT ![prefix] = @ + 1]
  ELSE log @@ (prefix :> 1)

\* history: the fetch of prefix ended with outcome and returned results
Record(log, prefix, outcome, results) ==
  log \cup {[prefix |-> prefix, outcome |-> outcome, results |-> results]}

----------------------------------------------------------------------------
(* final-solution.js *)

\* mutant: the retry calls makeRequest(prefix), the count starts again
FS_NextRetry_Reset(retryCount) == 0

\* the attempt number makeRequest passes on when it retries
FS_NextRetry(retryCount) == retryCount + 1

\* mutant: the retry limit is never applied
FS_GivesUp_Never(retryCount) == FALSE

\* mutant: retryCount >= 1 in place of retryCount >= 5
FS_GivesUp_Early(retryCount) == retryCount >= 1

\* mutant: retryCount > 5 in place of retryCount >= 5
FS_GivesUp_Late(retryCount) == retryCount > RetryLimit

\* makeRequest gives up when it is rate limited at this retry count
FS_GivesUp(retryCount) == retryCount >= RetryLimit

\* mutant: prefix.length < 2 in place of prefix.length <= 2
FS_Expands_Shallow(prefix, results) == Len(results) > 0 /\ Len(prefix) < 2

\* mutant: prefix.length <= 3 in place of prefix.length <= 2
FS_Expands_Deep(prefix, results) == Len(results) > 0 /\ Len(prefix) <= 3

\* mutant: the test of results.length is left out
FS_Expands_Always(prefix, results) == Len(prefix) <= 2

\* the expansion rule of processPrefix
FS_Expands(prefix, results) == Len(results) > 0 /\ Len(prefix) <= 2

\* mutant: results.filter(name => uniqueNames.has(name))
FS_newNames_Members(results, names) == SelectSeq(results, LAMBDA n : n \in names)

\* results.filter(name => !uniqueNames.has(name))
FS_newNames(results, names) == SelectSeq(results, LAMBDA n : n \notin names)

\* Math.min(1000 * Math.pow(2, retryCount), 30000)
FS_backoffTime(retryCount) == Min(1000 * 2^retryCount, 30000)

\* mutant: the file is written before the names are copied
saveProgress_Empty(names) == {}

\* saveProgress
saveProgress(names) == names

\* mutant: the loop stops after its first batch
FS_LoopGoesOn_Once(q) == FALSE

\* extractNames, line 85: while (queue.length > 0)
FS_LoopGoesOn(q) == Len(q) > 0

\* extractNames, lines 85-94: the loop draws a batch and starts its calls
FS_DrawBatch ==
  /\ prog = "final" /\ phase = "loop" /\ queue # <<>>
  /\ LET n == Min(MAX_CONCURRENCY, Len(queue))
         l == Launch(SubSeq(queue, 1, n), visited)
     IN /\ queue' = SubSeq(queue, n + 1, Len(queue))
        /\ tasks' = l.tasks
        /\ visited' = l.visited
  /\ phase' = "await"
  /\ UNCHANGED <<env, nextBatch, uniqueNames, totalRequests, snapshot, started,
                 fetched, hits, throttles, faults, received>>

\* processPrefix, lines 48-50, and makeRequest, lines 20-24: the delay is
\* over, the request is counted and sent
FS_Request(i) ==
  /\ prog = "final" /\ i \in DOMAIN tasks /\ tasks[i].pc = "sleep"
  /\ Free(i)
  /\ tasks' = [tasks EXCEPT ![i].pc = "request", ![i].issued = 1]
  /\ totalRequests' = Counted(totalRequests)
  /\ started' = Count(started, tasks[i].prefix)
  /\ UNCHANGED <<env, phase, queue, nextBatch, visited, uniqueNames, snapshot,
                 fetched, hits, throttles, faults, received>>

\* processPrefix, lines 50-68, with results the value makeRequest returned
FS_Finish(i, results, outcome) ==
  LET t == tasks[i]
      newNames == FS_newNames(results, uniqueNames)
  IN /\ uniqueNames' = AddAll(uniqueNames, newNames)
     /\ tasks' = [tasks EXCEPT ![i].pc = "done", ![i].outcome = outcome,
                               ![i].next = IF FS_Expands(t.prefix, results)
                                           THEN Children(t.prefix) ELSE <<>>]
     /\ fetched' = Record(fetched, t.prefix, outcome, results)
     /\ UNCHANGED <<phase, snapshot>>

\* results.filter throws: processPrefix rejects, so does Promise.all, and the
\* catch of main (lines 121-124) saves; the other calls of the batch go on
FS_Throw(i) ==
  /\ tasks' = [tasks EXCEPT ![i].pc = "failed", ![i].outcome = "malformed"]
  /\ fetched' = Record(fetched, tasks[i].prefix, "malformed", <<>>)
  /\ IF phase = "await"
     THEN phase' = "aborted" /\ snapshot' = saveProgress(uniqueNames)
     ELSE UNCHANGED <<phase, snapshot>>
  /\ UNCHANGED uniqueNames

\* makeRequest, lines 24-25: a 2xx answer
FS_Success(i) ==
  /\ prog = "final" /\ i \in DOMAIN tasks /\ tasks[i].pc = "request"
  /\ Free(i)
  /\ \E a \in Answers(tasks[i].prefix) :
       /\ a.kind \in {"ok", "malformed"}
       /\ Account(a)
       /\ IF a.kind = "malformed" THEN FS_Throw(i) ELSE FS_Finish(i, a.data, "ok")
  /\ UNCHANGED <<env, queue, nextBatch, visited, totalRequests, started>>

\* makeRequest, lines 27-37: a 429 or 503
FS_RateLimited(i) ==
  /\ prog = "final" /\ i \in DOMAIN tasks /\ tasks[i].pc = "request"
  /\ Free(i)
  /\ \E a \in Answers(tasks[i].prefix) :
       /\ a.kind = "throttled"
       /\ Account(a)
       /\ IF FS_GivesUp(tasks[i].retryCount)
          THEN FS_Finish(i, <<>>, "skip")
          ELSE /\ tasks' = [tasks EXCEPT
                            ![i].pc = "backoff",
                            ![i].waits = Append(@, FS_backoffTime(tasks[i].retryCount))]
               /\ UNCHANGED <<phase, snapshot, uniqueNames, fetched>>
  /\ UNCHANGED <<env, queue, nextBatch, visited, totalRequests, started>>

\* makeRequest, lines 39-40: any other failure
FS_Error(i) ==
  /\ prog = "final" /\ i \in DOMAIN tasks /\ tasks[i].pc = "request"
  /\ Free(i)
  /\ \E a \in Answers(tasks[i].prefix) :
       /\ a.kind = "error"
       /\ Account(a)
       /\ FS_Finish(i, <<>>, "error")
  /\ UNCHANGED <<env, queue, nextBatch, visited, totalRequests, started>>

\* makeRequest, lines 35-36 and 20-24: the backoff is over, the retry is
\* counted and sent (the model stops a call at MaxAttempts requests)
FS_Retry(i) ==
  /\ prog = "final" /\ i \in DOMAIN tasks /\ tasks[i].pc = "backoff"
  /\ Free(i)
  /\ tasks[i].issued < MaxAttempts
  /\ LET rc == FS_NextRetry(tasks[i].retryCount)
     IN /\ tasks' = [tasks EXCEPT ![i].pc = "request", ![i].retryCount = rc,
                                  ![i].issued = @ + 1]
        /\ started' = IF rc = 0 THEN Count(started, tasks[i].prefix) ELSE started
  /\ totalRequests' = Counted(totalRequests)
  /\ UNCHANGED <<env, phase, queue, nextBatch, visited, uniqueNames, snapshot,
                 fetched, hits, throttles, faults, received>>

\* extractNames, lines 96-113: Promise.all resolved; the children are
\* appended, the checkpoint is taken, and the loop ends when the queue is empty
FS_BatchDone ==
  /\ prog = "final" /\ phase = "await" /\ Settled
  /\ LET q == queue \o Flatten([i \in DOMAIN tasks |-> tasks[i].next])
         s == IF totalRequests % CheckpointEvery = 0
              THEN saveProgress(uniqueNames) ELSE snapshot
     IN /\ queue' = q
        /\ IF FS_LoopGoesOn(q)
           THEN phase' = "loop" /\ snapshot' = s
           ELSE phase' = "complete" /\ snapshot' = saveProgress(uniqueNames)
  /\ tasks' = <<>>
  /\ UNCHANGED <<env, nextBatch, visited, uniqueNames, totalRequests, started,
                 fetched, hits, throttles, faults, received>>

\* the endpoint answers the request of call i
FS_Answer(i) == FS_Success(i) \/ FS_RateLimited(i) \/ FS_Error(i)

FS_Next ==
  \/ FS_DrawBatch
  \/ FS_BatchDone
  \/ \E i \in 1..MAX_CONCURRENCY :
       FS_Request(i) \/ FS_Success(i) \/ FS_RateLimited(i) \/ FS_Error(i)
       \/ FS_Retry(i)

----------------------------------------------------------------------------
(* optimized-extractor.js (unnamed/part_000 is a copy of it) *)

OneLetterMore == SubSeq(Letters, 1, AlphabetSize + 1)

\* the alphabet of optimized-extractor.js: the letters of ALPHABET, and one
\* letter more in a run against the "wide" endpoint, so that a level of the
\* crawl fills more than one chunk
CHARACTERS == IF endpoint = "wide" THEN OneLetterMore ELSE ALPHABET

\* CHARACTERS.split('')
OE_Seeds == [i \in 1..Len(CHARACTERS) |-> <<CHARACTERS[i]>>]

\* for (const char of CHARACTERS) nextPrefixes.push(prefix + char)
OE_Children(prefix) ==
  [i \in 1..Len(CHARACTERS) |-> Append(prefix, CHARACTERS[i])]

\* the attempt number fetchWithThrottle starts with
OE_FirstAttempt == 1

\* the attempt number fetchWithThrottle passes on when it retries
OE_NextAttempt(attempt) == attempt + 1

\* mutant: Math.min and the cap are left out
OE_backoffTime_NoCap(attempt) == 2000 * 2^attempt

\* mutant: the exponent is the number of retries made so far
OE_backoffTime_FromZero(attempt) == Min(2000 * 2^(attempt - 1), 30000)

\* Math.min(2000 * Math.pow(2, attempt), 30000)
OE_backoffTime(attempt) == Min(2000 * 2^attempt, 30000)

\* mutant: only the rule for capped results is applied
shouldExpandPrefix_CapOnly(prefix, results) ==
  IF Len(results) >= 10 /\ Len(prefix) <= 2 THEN TRUE ELSE FALSE

shouldExpandPrefix(prefix, results) ==
  IF Len(results) > 0 /\ Len(prefix) < 3 THEN TRUE
  ELSE IF Len(results) >= 10 /\ Len(prefix) <= 2 THEN TRUE
  ELSE FALSE

\* mutant: the whole list is given to one Promise.all
OE_ChunkSize_All(prefixes) == Len(prefixes)

\* how many prefixes processBatch hands to one Promise.all
OE_ChunkSize(prefixes) == Min(CONCURRENCY_LIMIT, Len(prefixes))

\* testPrefixes of exploreAPIBehavior
OE_testPrefixes ==
  << <<"a">>, <<"b">>, <<"j", "o">>, <<"m", "a">>, <<"z">>, <<>> >>

\* the test prefixes of the parallel test: if (prefix === '') return 0
OE_parallelPrefixes == SelectSeq(OE_testPrefixes, LAMBDA p : p # <<>>)

\* the fetches of exploreAPIBehavior: one for every test prefix in sequence,
\* then one for every test prefix but the empty one, all at once
OE_ProbeFetches == Len(OE_testPrefixes) + Len(OE_parallelPrefixes)

\* fetchWithThrottle, lines 21-25, called by exploreAPIBehavior: the request
\* is counted and sent
OE_ProbeTask(prefix) ==
  [Task(prefix, "request") EXCEPT !.issued = 1, !.attempt = OE_FirstAttempt]

\* main, line 204, and exploreAPIBehavior, lines 163-170: the fetch of the
\* first test prefix starts
OE_ProbeStart ==
  /\ prog = "optimized" /\ phase = "probe" /\ probed = 0
  /\ tasks' = <<OE_ProbeTask(OE_testPrefixes[1])>>
  /\ totalRequests' = Counted(totalRequests)
  /\ probed' = 1
  /\ UNCHANGED <<prog, endpoint, k, activeRequests, limit, args, ret, phase,
                 queue, nextBatch, visited, uniqueNames, snapshot, started,
                 fetched, hits, throttles, faults, received>>

\* fetchWithThrottle, lines 25-26 and 36-37, and exploreAPIBehavior, lines
\* 171-177 and 184-185: a probe fetch returns, with the body of a 2xx answer
\* or with [] after a failure that is no 429 or 503; what it returns is
\* logged, nothing of the fetch is kept, and sleep(500) starts
OE_ProbeAnswer(i) ==
  /\ prog = "optimized" /\ phase = "probe"
  /\ i \in DOMAIN tasks /\ tasks[i].pc = "request"
  /\ \E a \in Answers(tasks[i].prefix) :
       /\ a.kind # "throttled"
       /\ Account(a)
  /\ tasks' = [tasks EXCEPT ![i] = Task(tasks[i].prefix, "pause")]
  /\ UNCHANGED <<env, phase, queue, nextBatch, visited, uniqueNames,
                 totalRequests, snapshot, started, fetched>>

\* exploreAPIBehavior, lines 169-170 and 177-184: the sleep after a fetch of
\* the sequence is over; the fetch of the next test prefix starts, or, after
\* the last one, those of the parallel test start together
OE_ProbeNext ==
  /\ prog = "optimized" /\ phase = "probe"
  /\ probed \in 1..Len(OE_testPrefixes)
  /\ tasks[1].pc = "pause"
  /\ IF probed < Len(OE_testPrefixes)
     THEN /\ tasks' = <<OE_ProbeTask(OE_testPrefixes[probed + 1])>>
          /\ totalRequests' = Counted(totalRequests)
          /\ probed' = probed + 1
     ELSE /\ tasks' = [i \in DOMAIN OE_parallelPrefixes |->
                         OE_ProbeTask(OE_parallelPrefixes[i])]
          /\ totalRequests' = totalRequests + Len(OE_parallelPrefixes)
          /\ probed' = OE_ProbeFetches
  /\ UNCHANGED <<prog, endpoint, k, activeRequests, limit, args, ret, phase,
                 queue, nextBatch, visited, uniqueNames, snapshot, started,
                 fetched, hits, throttles, faults, received>>

\* exploreAPIBehavior, lines 185-198, main, lines 204-207, and
\* extractAllNames, lines 132-137: the sleep of a callback of the parallel
\* test is over and the callback returns; after the last one Promise.all
\* resolves, exploreAPIBehavior returns and main calls extractAllNames, whose
\* first batch is the seeds
OE_ProbeDone(i) ==
  /\ prog = "optimized" /\ phase = "probe"
  /\ probed = OE_ProbeFetches
  /\ i \in DOMAIN tasks /\ tasks[i].pc = "pause"
  /\ IF \A j \in DOMAIN tasks \ {i} : tasks[j].pc = "done"
     THEN /\ tasks' = <<>>
          /\ queue' = OE_Seeds
          /\ phase' = "loop"
     ELSE /\ tasks' = [tasks EXCEPT ![i].pc = "done"]
          /\ UNCHANGED <<queue, phase>>
  /\ UNCHANGED <<env, nextBatch, visited, uniqueNames, totalRequests, snapshot,
                 started, fetched, hits, throttles, faults, received>>

\* processBatch, lines 110-122: the next chunk is cut and its calls start
OE_DrawChunk ==
  /\ prog = "optimized" /\ phase = "loop" /\ queue # <<>>
  /\ LET n == OE_ChunkSize(queue)
         l == Launch(SubSeq(queue, 1, n), visited)
     IN /\ queue' = SubSeq(queue, n + 1, Len(queue))
        /\ tasks' = l.tasks
        /\ visited' = l.visited
  /\ phase' = "await"
  /\ UNCHANGED <<env, nextBatch, uniqueNames, totalRequests, snapshot, started,
                 fetched, hits, throttles, faults, received>>

\* processPrefix, lines 62-64, and fetchWithThrottle, lines 21-25
OE_Request(i) ==
  /\ prog = "optimized" /\ i \in DOMAIN tasks /\ tasks[i].pc = "sleep"
  /\ tasks' = [tasks EXCEPT ![i].pc = "request", ![i].issued = 1,
                            ![i].attempt = OE_FirstAttempt]
  /\ totalRequests' = Counted(totalRequests)
  /\ started' = Count(started, tasks[i].prefix)
  /\ UNCHANGED <<env, phase, queue, nextBatch, visited, uniqueNames, snapshot,
                 fetched, hits, throttles, faults, received>>

\* processPrefix, lines 64-84, with results the value fetchWithThrottle returned
OE_Finish(i, results, outcome) ==
  LET t == tasks[i]
  IN /\ uniqueNames' = AddAll(uniqueNames, results)
     /\ tasks' = [tasks EXCEPT ![i].pc = "done", ![i].outcome = outcome,
                               ![i].next = IF shouldExpandPrefix(t.prefix, results)
                                           THEN OE_Children(t.prefix) ELSE <<>>]
     /\ fetched' = Record(fetched, t.prefix, outcome, results)
     /\ UNCHANGED phase

\* results.forEach throws: processPrefix, Promise.all, processBatch and
\* extractAllNames reject and the catch of main (lines 208-210) logs
OE_Throw(i) ==
  /\ tasks' = [tasks EXCEPT ![i].pc = "failed", ![i].outcome = "malformed"]
  /\ fetched' = Record(fetched, tasks[i].prefix, "malformed", <<>>)
  /\ phase' = IF phase = "await" THEN "aborted" ELSE phase
  /\ UNCHANGED uniqueNames

\* fetchWithThrottle, lines 25-26: a 2xx answer
OE_Success(i) ==
  /\ prog = "optimized" /\ Crawling
  /\ i \in DOMAIN tasks /\ tasks[i].pc = "request"
  /\ \E a \in Answers(tasks[i].prefix) :
       /\ a.kind \in {"ok", "malformed"}
       /\ Account(a)
       /\ IF a.kind = "malformed" THEN OE_Throw(i) ELSE OE_Finish(i, a.data, "ok")
  /\ UNCHANGED <<env, queue, nextBatch, visited, totalRequests, snapshot,
                 started>>

\* fetchWithThrottle, lines 29-32: a 429 or 503; the call always backs off,
\* in a probe as in the crawl
OE_RateLimited(i) ==
  /\ prog = "optimized" /\ i \in DOMAIN tasks /\ tasks[i].pc = "request"
  /\ \E a \in Answers(tasks[i].prefix) :
       /\ a.kind = "throttled"
       /\ Account(a)
  /\ tasks' = [tasks EXCEPT
               ![i].pc = "backoff",
               ![i].waits = Append(@, OE_backoffTime(tasks[i].attempt))]
  /\ UNCHANGED <<env, phase, queue, nextBatch, visited, uniqueNames,
                 totalRequests, snapshot, started, fetched>>

\* fetchWithThrottle, lines 36-37: any other failure
OE_Error(i) ==
  /\ prog = "optimized" /\ Crawling
  /\ i \in DOMAIN tasks /\ tasks[i].pc = "request"
  /\ \E a \in Answers(tasks[i].prefix) :
       /\ a.kind = "error"
       /\ Account(a)
       /\ OE_Finish(i, <<>>, "error")
  /\ UNCHANGED <<env, queue, nextBatch, visited, totalRequests, snapshot,
                 started>>

\* fetchWithThrottle, lines 32-33 and 21-25: the backoff is over, the retry is
\* counted and sent (the model stops a call at MaxAttempts requests)
OE_Retry(i) ==
  /\ prog = "optimized" /\ i \in DOMAIN tasks /\ tasks[i].pc = "backoff"
  /\ tasks[i].issued < MaxAttempts
  /\ LET a == OE_NextAttempt(tasks[i].attempt)
     IN /\ tasks' = [tasks EXCEPT ![i].pc = "request", ![i].attempt = a,
                                  ![i].issued = @ + 1]
        /\ started' = IF a = OE_FirstAttempt
                      THEN Count(started, tasks[i].prefix) ELSE started
  /\ totalRequests' = Counted(totalRequests)
  /\ UNCHANGED <<env, phase, queue, nextBatch, visited, uniqueNames, snapshot,
                 fetched, hits, throttles, faults, received>>

\* processBatch, lines 124-128, and extractAllNames, lines 140-149: the
\* chunk's children are collected; after the last chunk they become the
\* current batch, and the loop ends and writes the file when there are none
OE_ChunkDone ==
  /\ prog = "optimized" /\ phase = "await" /\ Settled
  /\ LET nb == nextBatch \o Flatten([i \in DOMAIN tasks |-> tasks[i].next])
     IN IF queue # <<>>
        THEN /\ nextBatch' = nb
             /\ phase' = "loop"
             /\ UNCHANGED <<queue, snapshot>>
        ELSE /\ queue' = nb
             /\ nextBatch' = <<>>
             /\ IF nb = <<>>
                THEN phase' = "complete" /\ snapshot' = uniqueNames
                ELSE phase' = "loop" /\ UNCHANGED snapshot
  /\ tasks' = <<>>
  /\ UNCHANGED <<env, visited, uniqueNames, totalRequests, started, fetched,
                 hits, throttles, faults, received>>

OE_Next ==
  \/ OE_ProbeStart
  \/ OE_ProbeNext
  \/ OE_DrawChunk
  \/ OE_ChunkDone
  \/ \E i \in 1..CONCURRENCY_LIMIT :
       OE_ProbeAnswer(i) \/ OE_ProbeDone(i)
       \/ OE_Request(i) \/ OE_Success(i) \/ OE_RateLimited(i) \/ OE_Error(i)
       \/ OE_Retry(i)

----------------------------------------------------------------------------
(* unnamed/part_002: determineAPILimits and main *)

\* testLetters of determineAPILimits
Lim_testLetters == << <<"a">>, <<"b">>, <<"c">>, <<"d">>, <<"e">> >>

\* for (let i = 0; i < 10; i++) await makeAutocompleteRequest('a')
Lim_RapidRequests == 10

\* the fetches of determineAPILimits: the test letters in sequence, the test
\* letters at once, and 'a' ten times in sequence
Lim_ProbeFetches == Len(Lim_testLetters) + Len(Lim_testLetters) + Lim_RapidRequests

\* the fetches started when the parallel test runs
Lim_Parallel == Len(Lim_testLetters) + Len(Lim_testLetters)

\* allSameCount ? counts[0] : null
Lim_possibleResultLimit(counts) ==
  IF \A i \in DOMAIN counts : counts[i] = counts[1] THEN counts[1] ELSE Null

\* if (limits.possibleResultLimit)
Truthy(v) == v # Null /\ v # 0

\* the crawl main calls
Lim_Selects(possibleResultLimit) ==
  IF Truthy(possibleResultLimit) THEN "efficient" ELSE "sequential"

\* results.length of what makeAutocompleteRequest returns: the body of a 2xx
\* answer (undefined when it is no array), [] after another failure
Lim_Length(answer) ==
  CASE answer.kind = "ok" -> Len(answer.data)
    [] answer.kind = "malformed" -> Null
    [] answer.kind = "error" -> 0

\* makeAutocompleteRequest, lines 22-25, called by determineAPILimits: the
\* request is counted and sent
Lim_ProbeTask(prefix) == [Task(prefix, "request") EXCEPT !.issued = 1]

\* main of unnamed/part_002 awaits determineAPILimits
Lim_Runs == prog = "part_002" /\ phase = "probe"

\* main, line 205, and determineAPILimits, lines 150-157: the fetch of the
\* first test letter starts
Lim_Start ==
  /\ Lim_Runs /\ probed = 0
  /\ tasks' = <<Lim_ProbeTask(Lim_testLetters[1])>>
  /\ totalRequests' = Counted(totalRequests)
  /\ probed' = 1
  /\ UNCHANGED <<prog, endpoint, k, activeRequests, limit, args, ret, phase,
                 queue, nextBatch, visited, uniqueNames, snapshot, started,
                 fetched, hits, throttles, faults, received>>

\* makeAutocompleteRequest, lines 25-26 and 37, and determineAPILimits, lines
\* 158-159 and 166-167: a fetch of the sequence or of the parallel test
\* returns and delay(500) starts; a callback of the parallel test keeps
\* results.length and nothing else of the fetch
Lim_Answer(i) ==
  /\ Lim_Runs /\ probed <= Lim_Parallel
  /\ i \in DOMAIN tasks /\ tasks[i].pc = "request"
  /\ \E a \in Answers(tasks[i].prefix) :
       /\ a.kind # "throttled"
       /\ Account(a)
       /\ tasks' = [tasks EXCEPT
                    ![i] = [Task(tasks[i].prefix, "pause") EXCEPT
                              !.count = IF probed = Lim_Parallel
                                        THEN Lim_Length(a) ELSE 0]]
  /\ UNCHANGED <<env, phase, queue, nextBatch, visited, uniqueNames,
                 totalRequests, snapshot, started, fetched>>

\* makeAutocompleteRequest, lines 31-33, called by determineAPILimits: a 429
\* or 503; the call always waits
Lim_RateLimited(i) ==
  /\ Lim_Runs
  /\ i \in DOMAIN tasks /\ tasks[i].pc = "request"
  /\ \E a \in Answers(tasks[i].prefix) :
       /\ a.kind = "throttled"
       /\ Account(a)
  /\ tasks' = [tasks EXCEPT ![i].pc = "backoff", ![i].waits = Append(@, 2000)]
  /\ UNCHANGED <<env, phase, queue, nextBatch, visited, uniqueNames,
                 totalRequests, snapshot, started, fetched>>

\* makeAutocompleteRequest, lines 33-34 and 22-25, called by
\* determineAPILimits: the wait is over, the request is counted and sent
\* again (the model stops a call at MaxAttempts)
Lim_Retry(i) ==
  /\ Lim_Runs
  /\ i \in DOMAIN tasks /\ tasks[i].pc = "backoff"
  /\ tasks[i].issued < MaxAttempts
  /\ tasks' = [tasks EXCEPT ![i].pc = "request", ![i].issued = @ + 1]
  /\ totalRequests' = Counted(totalRequests)
  /\ UNCHANGED <<env, phase, queue, nextBatch, visited, uniqueNames, snapshot,
                 started, fetched, hits, throttles, faults, received>>

\* determineAPILimits, lines 156-157 and 159-166: the delay after a fetch of
\* the sequence is over; the fetch of the next test letter starts, or, after
\* the last one, those of the parallel test start together
Lim_Next ==
  /\ Lim_Runs /\ probed \in 1..Len(Lim_testLetters)
  /\ tasks[1].pc = "pause"
  /\ IF probed < Len(Lim_testLetters)
     THEN /\ tasks' = <<Lim_ProbeTask(Lim_testLetters[probed + 1])>>
          /\ totalRequests' = Counted(totalRequests)
          /\ probed' = probed + 1
     ELSE /\ tasks' = [i \in DOMAIN Lim_testLetters |->
                         Lim_ProbeTask(Lim_testLetters[i])]
          /\ totalRequests' = totalRequests + Len(Lim_testLetters)
          /\ probed' = Lim_Parallel
  /\ UNCHANGED <<prog, endpoint, k, activeRequests, limit, args, ret, phase,
                 queue, nextBatch, visited, uniqueNames, snapshot, started,
                 fetched, hits, throttles, faults, received>>

\* determineAPILimits, lines 167-186: the delay of a callback of the parallel
\* test is over and the callback returns its count; after the last one
\* Promise.all resolves, the counts are compared and the first of the ten
\* rapid requests is sent
Lim_Done(i) ==
  /\ Lim_Runs /\ probed = Lim_Parallel
  /\ i \in DOMAIN tasks /\ tasks[i].pc = "pause"
  /\ IF \A j \in DOMAIN tasks \ {i} : tasks[j].pc = "done"
     THEN /\ limit' = Lim_possibleResultLimit(
                         [j \in DOMAIN tasks |-> tasks[j].count])
          /\ tasks' = <<Lim_ProbeTask(Lim_testLetters[1])>>
          /\ totalRequests' = Counted(totalRequests)
          /\ probed' = probed + 1
     ELSE /\ tasks' = [tasks EXCEPT ![i].pc = "done"]
          /\ UNCHANGED <<limit, totalRequests, probed>>
  /\ UNCHANGED <<prog, endpoint, k, activeRequests, args, ret, phase, queue,
                 nextBatch, visited, uniqueNames, snapshot, started, fetched,
                 hits, throttles, faults, received>>

\* determineAPILimits, lines 185-197, main, lines 205-215, and the seeding
\* of the crawl (extractNamesEfficiently, lines 103-109; extractAllNames,
\* lines 77-80): a rapid request is answered and the next one is sent at
\* once; after the last one determineAPILimits returns and main calls the
\* crawl that possibleResultLimit selects, which starts with the seeds
Lim_Rapid ==
  /\ Lim_Runs /\ probed > Lim_Parallel
  /\ tasks[1].pc = "request"
  /\ \E a \in Answers(tasks[1].prefix) :
       /\ a.kind # "throttled"
       /\ Account(a)
  /\ IF probed < Lim_ProbeFetches
     THEN /\ tasks' = <<Lim_ProbeTask(Lim_testLetters[1])>>
          /\ totalRequests' = Counted(totalRequests)
          /\ probed' = probed + 1
          /\ UNCHANGED <<queue, phase>>
          /\ UNCHANGED prog
     ELSE /\ prog' = Lim_Selects(limit)
          /\ tasks' = <<>>
          /\ queue' = Seeds
          /\ phase' = "loop"
          /\ UNCHANGED <<totalRequests, probed>>
  /\ UNCHANGED <<endpoint, k, activeRequests, limit, args, ret, nextBatch,
                 visited, uniqueNames, snapshot, started, fetched>>

\* the steps of determineAPILimits
Lim_Step ==
  \/ Lim_Start
  \/ Lim_Next
  \/ Lim_Rapid
  \/ \E i \in 1..Len(Lim_testLetters) :
       Lim_Answer(i) \/ Lim_RateLimited(i) \/ Lim_Retry(i) \/ Lim_Done(i)

----------------------------------------------------------------------------
(* unnamed/part_002: extractNamesEfficiently *)

\* the expansion rule of extractNamesEfficiently
Eff_Expands(prefix, results) == Len(results) >= 10

\* how many prefixes of currentBatch are given to one Promise.all
Eff_BatchSize(currentBatch) == Len(currentBatch)

\* lines 111-120: nextBatch is emptied and every call of the batch starts
\* (the model stops the crawl at prefixes longer than MaxDepth)
Eff_DrawBatch ==
  /\ prog = "efficient" /\ phase = "loop" /\ queue # <<>>
  /\ \A i \in DOMAIN queue : Len(queue[i]) <= MaxDepth
  /\ LET n == Eff_BatchSize(queue)
         l == Launch(SubSeq(queue, 1, n), visited)
     IN /\ queue' = SubSeq(queue, n + 1, Len(queue))
        /\ tasks' = l.tasks
        /\ visited' = l.visited
  /\ nextBatch' = <<>>
  /\ phase' = "await"
  /\ UNCHANGED <<env, uniqueNames, totalRequests, snapshot, started, fetched,
                 hits, throttles, faults, received>>

\* lines 120-121, and makeAutocompleteRequest, lines 22-25
Eff_Request(i) ==
  /\ prog = "efficient" /\ i \in DOMAIN tasks /\ tasks[i].pc = "sleep"
  /\ tasks' = [tasks EXCEPT ![i].pc = "request", ![i].issued = 1]
  /\ totalRequests' = Counted(totalRequests)
  /\ started' = Count(started, tasks[i].prefix)
  /\ UNCHANGED <<env, phase, queue, nextBatch, visited, uniqueNames, snapshot,
                 fetched, hits, throttles, faults, received>>

\* lines 123-134, with results the value makeAutocompleteRequest returned
Eff_Finish(i, results, outcome) ==
  LET t == tasks[i]
  IN /\ uniqueNames' = AddAll(uniqueNames, results)
     /\ nextBatch' = IF Eff_Expands(t.prefix, results)
                     THEN nextBatch \o Children(t.prefix) ELSE nextBatch
     /\ tasks' = [tasks EXCEPT ![i].pc = "done", ![i].outcome = outcome]
     /\ fetched' = Record(fetched, t.prefix, outcome, results)
     /\ UNCHANGED phase

\* results.forEach throws: the callback, Promise.all, extractNamesEfficiently
\* and main reject; main().catch (line 218) logs
Eff_Throw(i) ==
  /\ tasks' = [tasks EXCEPT ![i].pc = "failed", ![i].outcome = "malformed"]
  /\ fetched' = Record(fetched, tasks[i].prefix, "malformed", <<>>)
  /\ phase' = IF phase = "await" THEN "aborted" ELSE phase
  /\ UNCHANGED <<uniqueNames, nextBatch>>

\* makeAutocompleteRequest, lines 25-26: a 2xx answer
Eff_Success(i) ==
  /\ prog = "efficient" /\ i \in DOMAIN tasks /\ tasks[i].pc = "request"
  /\ \E a \in Answers(tasks[i].prefix) :
       /\ a.kind \in {"ok", "malformed"}
       /\ Account(a)
       /\ IF a.kind = "malformed" THEN Eff_Throw(i) ELSE Eff_Finish(i, a.data, "ok")
  /\ UNCHANGED <<env, queue, visited, totalRequests, snapshot, started>>

\* makeAutocompleteRequest, lines 31-33: a 429 or 503; the call always waits
Eff_RateLimited(i) ==
  /\ prog = "efficient" /\ i \in DOMAIN tasks /\ tasks[i].pc = "request"
  /\ \E a \in Answers(tasks[i].prefix) :
       /\ a.kind = "throttled"
       /\ Account(a)
  /\ tasks' = [tasks EXCEPT ![i].pc = "backoff", ![i].waits = Append(@, 2000)]
  /\ UNCHANGED <<env, phase, queue, nextBatch, visited, uniqueNames,
                 totalRequests, snapshot, started, fetched>>

\* makeAutocompleteRequest, line 37: any other failure
Eff_Error(i) ==
  /\ prog = "efficient" /\ i \in DOMAIN tasks /\ tasks[i].pc = "request"
  /\ \E a \in Answers(tasks[i].prefix) :
       /\ a.kind = "error"
       /\ Account(a)
       /\ Eff_Finish(i, <<>>, "error")
  /\ UNCHANGED <<env, queue, visited, totalRequests, snapshot, started>>

\* makeAutocompleteRequest, lines 33-34 and 22-25: the wait is over, the
\* request is counted and sent again (the model stops a call at MaxAttempts)
Eff_Retry(i) ==
  /\ prog = "efficient" /\ i \in DOMAIN tasks /\ tasks[i].pc = "backoff"
  /\ tasks[i].issued < MaxAttempts
  /\ tasks' = [tasks EXCEPT ![i].pc = "request", ![i].issued = @ + 1]
  /\ totalRequests' = Counted(totalRequests)
  /\ UNCHANGED <<env, phase, queue, nextBatch, visited, uniqueNames, snapshot,
                 started, fetched, hits, throttles, faults, received>>

\* lines 138-142: Promise.all resolved; nextBatch becomes the current batch,
\* and the loop ends and writes the file when it is empty
Eff_BatchDone ==
  /\ prog = "efficient" /\ phase = "await" /\ Settled
  /\ queue' = nextBatch
  /\ nextBatch' = <<>>
  /\ IF nextBatch = <<>>
     THEN phase' = "complete" /\ snapshot' = uniqueNames
     ELSE phase' = "loop" /\ UNCHANGED snapshot
  /\ tasks' = <<>>
  /\ UNCHANGED <<env, visited, uniqueNames, totalRequests, started, fetched,
                 hits, throttles, faults, received>>

Eff_Next ==
  \/ Eff_DrawBatch
  \/ Eff_BatchDone
  \/ \E i \in DOMAIN tasks :
       Eff_Request(i) \/ Eff_Success(i) \/ Eff_RateLimited(i) \/ Eff_Error(i)
       \/ Eff_Retry(i)

----------------------------------------------------------------------------
(* unnamed/part_002: extractAllNames, the sequential crawl *)

\* mutant: the finally block is left out
Seq_Leave_Skip(n) == n

\* processPrefix, line 69: activeRequests--
Seq_Leave(n) == n - 1

\* processPrefix, line 48: activeRequests++
Seq_Enter(n) == n + 1

\* processPrefix, line 44: the call has to wait for other requests
Seq_MustWait(n) == n >= MAX_CONCURRENT

\* the expansion rule of processPrefix, line 59
Seq_Expands(prefix, names) == Len(names) > 0 /\ Len(prefix) < 3

\* extractAllNames, lines 83-85, processPrefix, lines 42-51, and
\* makeAutocompleteRequest, lines 22-25: the loop shifts a prefix off the
\* queue and calls processPrefix, which waits 50 ms and tests again while
\* MAX_CONCURRENT requests are active, and otherwise counts itself in and
\* sends the request
Seq_Call ==
  /\ prog = "sequential"
  /\ LET waiting == tasks # <<>> /\ tasks[1].pc = "wait"
         prefix == IF waiting THEN tasks[1].prefix ELSE Head(queue)
     IN /\ IF waiting THEN phase = "await"
           ELSE phase = "loop" /\ queue # <<>> /\ tasks = <<>>
        /\ queue' = IF waiting THEN queue ELSE Tail(queue)
        /\ IF Seq_MustWait(activeRequests)
           THEN /\ tasks' = <<Task(prefix, "wait")>>
                /\ UNCHANGED <<activeRequests, totalRequests, started>>
           ELSE /\ activeRequests' = Seq_Enter(activeRequests)
                /\ tasks' = <<[Task(prefix, "request") EXCEPT !.issued = 1]>>
                /\ totalRequests' = Counted(totalRequests)
                /\ started' = Count(started, prefix)
  /\ phase' = "await"
  /\ UNCHANGED <<prog, endpoint, k, probed, limit, args, ret, nextBatch, visited, uniqueNames,
                 snapshot, fetched, hits, throttles, faults, received>>

\* processPrefix, lines 51-70, with names the value makeAutocompleteRequest
\* returned: the names are added, the children are pushed on the queue, and
\* the finally block counts the call out
Seq_Finish(names, outcome) ==
  LET t == tasks[1]
  IN /\ uniqueNames' = AddAll(uniqueNames, names)
     /\ queue' = IF Seq_Expands(t.prefix, names)
                 THEN queue \o Children(t.prefix) ELSE queue
     /\ tasks' = [tasks EXCEPT ![1].pc = "done", ![1].outcome = outcome]
     /\ fetched' = Record(fetched, t.prefix, outcome, names)
     /\ activeRequests' = Seq_Leave(activeRequests)

\* names.forEach throws: the catch of processPrefix (lines 66-67) logs, and
\* the finally block counts the call out
Seq_Caught ==
  /\ tasks' = [tasks EXCEPT ![1].pc = "done", ![1].outcome = "malformed"]
  /\ fetched' = Record(fetched, tasks[1].prefix, "malformed", <<>>)
  /\ activeRequests' = Seq_Leave(activeRequests)
  /\ UNCHANGED <<uniqueNames, queue>>

\* makeAutocompleteRequest, lines 25-26: a 2xx answer
Seq_Success ==
  /\ prog = "sequential" /\ tasks # <<>> /\ tasks[1].pc = "request"
  /\ \E a \in Answers(tasks[1].prefix) :
       /\ a.kind \in {"ok", "malformed"}
       /\ Account(a)
       /\ IF a.kind = "malformed" THEN Seq_Caught ELSE Seq_Finish(a.data, "ok")
  /\ UNCHANGED <<prog, endpoint, k, probed, limit, args, ret, phase, nextBatch, visited,
                 totalRequests, snapshot, started>>

\* makeAutocompleteRequest, lines 31-33: a 429 or 503; the call always waits
Seq_RateLimited ==
  /\ prog = "sequential" /\ tasks # <<>> /\ tasks[1].pc = "request"
  /\ \E a \in Answers(tasks[1].prefix) :
       /\ a.kind = "throttled"
       /\ Account(a)
  /\ tasks' = [tasks EXCEPT ![1].pc = "backoff", ![1].waits = Append(@, 2000)]
  /\ UNCHANGED <<env, phase, queue, nextBatch, visited, uniqueNames,
                 totalRequests, snapshot, started, fetched>>

\* makeAutocompleteRequest, line 37: any other failure
Seq_Error ==
  /\ prog = "sequential" /\ tasks # <<>> /\ tasks[1].pc = "request"
  /\ \E a \in Answers(tasks[1].prefix) :
       /\ a.kind = "error"
       /\ Account(a)
       /\ Seq_Finish(<<>>, "error")
  /\ UNCHANGED <<prog, endpoint, k, probed, limit, args, ret, phase, nextBatch, visited,
                 totalRequests, snapshot, started>>

\* makeAutocompleteRequest, lines 33-34 and 22-25: the wait is over, the
\* request is counted and sent again (the model stops a call at MaxAttempts)
Seq_Retry ==
  /\ prog = "sequential" /\ tasks # <<>> /\ tasks[1].pc = "backoff"
  /\ tasks[1].issued < MaxAttempts
  /\ tasks' = [tasks EXCEPT ![1].pc = "request", ![1].issued = @ + 1]
  /\ totalRequests' = Counted(totalRequests)
  /\ UNCHANGED <<env, phase, queue, nextBatch, visited, uniqueNames, snapshot,
                 started, fetched, hits, throttles, faults, received>>

\* extractAllNames, lines 85-90: processPrefix has returned and the delay is
\* over; the loop goes on, or ends and writes the file when the queue is empty
Seq_Continue ==
  /\ prog = "sequential" /\ phase = "await"
  /\ tasks # <<>> /\ tasks[1].pc = "done"
  /\ tasks' = <<>>
  /\ IF queue = <<>>
     THEN phase' = "complete" /\ snapshot' = uniqueNames
     ELSE phase' = "loop" /\ UNCHANGED snapshot
  /\ UNCHANGED <<env, queue, nextBatch, visited, uniqueNames, totalRequests,
                 started, fetched, hits, throttles, faults, received>>

Seq_Next ==
  \/ Seq_Call
  \/ Seq_Success
  \/ Seq_RateLimited
  \/ Seq_Error
  \/ Seq_Retry
  \/ Seq_Continue

----------------------------------------------------------------------------
(* Specifications *)

Start ==
  /\ k \in IF endpoint = "shallow" THEN {1, ResultCap}
          ELSE IF endpoint = "throttledOften" THEN {3, 4} ELSE {0}
  /\ phase = "loop"
  /\ queue = Seeds
  /\ nextBatch = <<>>
  /\ tasks = <<>>
  /\ visited = {}
  /\ uniqueNames = {}
  /\ totalRequests = 0
  /\ snapshot = {}
  /\ started = <<>>
  /\ fetched = {}
  /\ hits = 0
  /\ throttles = 0
  /\ faults = 0
  /\ received = 0
  /\ activeRequests = 0
  /\ probed = 0
  /\ limit = Null
  /\ args = <<>>
  /\ ret = <<>>

\* the state at the call of main of a script that probes the endpoint
\* before it crawls
AtMain ==
  /\ k \in IF endpoint = "shallow" THEN {1, ResultCap} ELSE {0}
  /\ phase = "probe"
  /\ queue = <<>>
  /\ nextBatch = <<>>
  /\ tasks = <<>>
  /\ visited = {}
  /\ uniqueNames = {}
  /\ totalRequests = 0
  /\ snapshot = {}
  /\ started = <<>>
  /\ fetched = {}
  /\ hits = 0
  /\ throttles = 0
  /\ faults = 0
  /\ received = 0
  /\ activeRequests = 0
  /\ probed = 0
  /\ limit = Null
  /\ args = <<>>
  /\ ret = <<>>

\* main of final-solution.js calls extractNames at once
FS_Init ==
  /\ prog = "final"
  /\ endpoint \in {"any", "empty", "shallow", "throttleAll", "throttledTwice",
                   "vocabulary", "throttledOften"}
  /\ Start

\* main of optimized-extractor.js
OE_Init ==
  /\ prog = "optimized"
  /\ endpoint \in {"any", "shallow", "throttleAll", "throttledTwice"}
  /\ AtMain

\* main of unnamed/part_002, against the endpoints that can give the
\* parallel test five equal counts, so that main may go on to call
\* extractNamesEfficiently
Eff_Init ==
  /\ prog = "part_002"
  /\ endpoint \in {"any", "shallow", "throttledTwice", "endless"}
  /\ AtMain

\* the two crawls that draw batches of a limited size: final-solution.js and
\* optimized-extractor.js
Init == FS_Init \/ OE_Init

Next == FS_Next \/ OE_Next

\* main of unnamed/part_002: determineAPILimits, then the crawl it selects
P2_Next == Lim_Step \/ Eff_Next \/ Seq_Next

\* main of unnamed/part_002 as far as extractAllNames is concerned: a run in
\* which main selects extractNamesEfficiently is followed up to the selection
Seq_MainNext == Lim_Step \/ Seq_Next

Spec == Init /\ [][Next]_vars

\* final-solution.js alone
SpecFS == FS_Init /\ [][FS_Next]_vars

\* final-solution.js under the scheduling of the event loop: a timer that is
\* due fires, a request that was sent is answered, and a continuation that
\* is ready runs
FS_Fairness ==
  /\ WF_vars(FS_DrawBatch)
  /\ WF_vars(FS_BatchDone)
  /\ \A i \in 1..MAX_CONCURRENCY :
       WF_vars(FS_Request(i)) /\ WF_vars(FS_Answer(i)) /\ WF_vars(FS_Retry(i))

FairFS == SpecFS /\ FS_Fairness

\* optimized-extractor.js alone, the "wide" endpoint included
OE_WideInit ==
  /\ prog = "optimized"
  /\ endpoint = "wide"
  /\ AtMain

SpecOE == (OE_Init \/ OE_WideInit) /\ [][OE_Next]_vars

\* main of unnamed/part_002, against the endpoints that can give the
\* parallel test no names or differing counts, so that main may go on to
\* call extractAllNames
Seq_Init ==
  /\ prog = "part_002"
  /\ endpoint \in {"any", "empty", "vocabulary"}
  /\ AtMain

SpecSeq == Seq_Init /\ [][Seq_MainNext]_vars

\* the three crawls that keep a queue of prefixes
SpecCrawls == (Init \/ Seq_Init) /\ [][Next \/ Seq_MainNext]_vars

\* main of unnamed/part_002 with either crawl
SpecEff == Eff_Init /\ [][P2_Next]_vars

\* every sequence of letters of the alphabet of length 0 to n
RECURSIVE Strings(_)
Strings(n) ==
  IF n = 0 THEN {<<>>}
  ELSE LET shorter == Strings(n - 1)
       IN shorter \cup {Append(p, ALPHABET[i]) : p \in shorter,
                                                 i \in 1..Len(ALPHABET)}

\* shouldExpandPrefix called on its own, with any prefix of up to MaxPrefixLen
\* letters and any array of up to MaxResults names
Rules_Init ==
  /\ prog = "rules"
  /\ endpoint = "empty"
  /\ k = 0
  /\ phase = "loop"
  /\ queue = <<>>
  /\ nextBatch = <<>>
  /\ tasks = <<>>
  /\ visited = {}
  /\ uniqueNames = {}
  /\ totalRequests = 0
  /\ snapshot = {}
  /\ started = <<>>
  /\ fetched = {}
  /\ hits = 0
  /\ throttles = 0
  /\ faults = 0
  /\ received = 0
  /\ activeRequests = 0
  /\ probed = 0
  /\ limit = Null
  /\ args \in {[prefix |-> p, results |-> Names(Seeds[1], n)] :
                 p \in Strings(MaxPrefixLen), n \in 0..MaxResults}
  /\ ret = <<>>

\* optimized-extractor.js, line 78: shouldExpandPrefix(prefix, results)
Call_shouldExpandPrefix ==
  /\ prog = "rules" /\ ret = <<>>
  /\ ret' = <<shouldExpandPrefix(args.prefix, args.results)>>
  /\ UNCHANGED <<prog, endpoint, k, activeRequests, probed, limit, args, phase, queue, nextBatch, tasks,
                 visited, uniqueNames, totalRequests, snapshot, started,
                 fetched, hits, throttles, faults, received>>

Rules_Next == Call_shouldExpandPrefix

SpecRules == Rules_Init /\ [][Rules_Next]_vars

\* the variables of a crawl, while a function is called on its own
NoCrawl ==
  /\ endpoint = "empty"
  /\ k = 0
  /\ phase = "loop"
  /\ queue = <<>>
  /\ nextBatch = <<>>
  /\ tasks = <<>>
  /\ visited = {}
  /\ totalRequests = 0
  /\ snapshot = {}
  /\ started = <<>>
  /\ fetched = {}
  /\ hits = 0
  /\ throttles = 0
  /\ faults = 0
  /\ received = 0
  /\ activeRequests = 0
  /\ probed = 0
  /\ limit = Null

\* every sequence of length 0 to n of members of S
RECURSIVE SeqsUpTo(_, _)
SeqsUpTo(S, n) ==
  IF n = 0 THEN {<<>>}
  ELSE LET shorter == SeqsUpTo(S, n - 1)
       IN shorter \cup {Append(q, x) : q \in shorter, x \in S}

\* the names the endpoint of the model knows
NamePool == UNION {Range(Names(Seeds[i], 2)) : i \in DOMAIN Seeds}

\* the merge of processPrefix called on its own: uniqueNames is any set of
\* names and results any array of up to MaxMergeLen names, repeats included
Merge_Init ==
  /\ prog = "merge"
  /\ NoCrawl
  /\ uniqueNames \in SUBSET NamePool
  /\ args \in {[results |-> r, names |-> uniqueNames] :
                 r \in SeqsUpTo(NamePool, MaxMergeLen)}
  /\ ret = <<>>

\* final-solution.js, lines 51-56: the new names are filtered, then added,
\* and their count is logged
Call_merge ==
  /\ prog = "merge" /\ ret = <<>>
  /\ LET newNames == FS_newNames(args.results, uniqueNames)
     IN /\ uniqueNames' = AddAll(uniqueNames, newNames)
        /\ ret' = <<Len(newNames)>>
  /\ UNCHANGED <<prog, endpoint, k, activeRequests, probed, limit, args, phase, queue, nextBatch, tasks,
                 visited, totalRequests, snapshot, started, fetched, hits,
                 throttles, faults, received>>

Merge_Next == Call_merge

SpecMerge == Merge_Init /\ [][Merge_Next]_vars

\* api-stats-counter.js, line 78: the expansion rule of exploreAllPrefixes
Stats_Expands(prefix, results) == Len(results) > 0 /\ Len(prefix) < 3

\* the three expansion rules called on the same arguments: any prefix of up
\* to MaxPrefixLen letters and any array of up to MaxResults names
Agree_Init ==
  /\ prog = "agree"
  /\ NoCrawl
  /\ uniqueNames = {}
  /\ args \in {[prefix |-> p, results |-> Names(Seeds[1], n)] :
                 p \in Strings(MaxPrefixLen), n \in 0..MaxResults}
  /\ ret = <<>>

\* optimized-extractor.js line 78, final-solution.js lines 60-61 and
\* api-stats-counter.js line 78: each script decides on the expansion
Call_rules ==
  /\ prog = "agree" /\ ret = <<>>
  /\ ret' = <<shouldExpandPrefix(args.prefix, args.results),
              FS_Expands(args.prefix, args.results),
              Stats_Expands(args.prefix, args.results)>>
  /\ UNCHANGED <<prog, endpoint, k, activeRequests, probed, limit, args, phase, queue, nextBatch, tasks,
                 visited, uniqueNames, totalRequests, snapshot, started,
                 fetched, hits, throttles, faults, received>>

Agree_Next == Call_rules

SpecAgree == Agree_Init /\ [][Agree_Next]_vars

----------------------------------------------------------------------------
(* Properties *)

N == Len(ALPHABET)

\* every prefix of length 1 to n over the alphabet
RECURSIVE PrefixesUpTo(_)
PrefixesUpTo(n) ==
  IF n = 0 THEN {}
  ELSE IF n = 1 THEN Range(Seeds)
  ELSE LET shorter == PrefixesUpTo(n - 1)
       IN shorter \cup {Append(p, ALPHABET[i]) : p \in shorter, i \in 1..N}

NoDuplicates(s) == \A i, j \in DOMAIN s : i # j => s[i] # s[j]

\* the call went past the visited guard
PassedGuard(t) == t.pc = "sleep" \/ t.issued > 0

\* a 200 answer whose body is no array was given
MalformedAnswer == \E i \in DOMAIN tasks : tasks[i].outcome = "malformed"

Batched == prog \in {"final", "optimized"}

\* C1: in both batched crawls and under every interleaving of the calls of a
\* batch, a prefix passes the visited guard at most once and a fetch at the
\* initial attempt number is started at most once per prefix; a call that
\* still waits for its first request has started none.
C1_FetchedAtMostOnce ==
  (Batched /\ Crawling) =>
    /\ \A p \in DOMAIN started : started[p] <= 1 /\ p \in visited
    /\ \A i, j \in DOMAIN tasks :
         (i # j /\ PassedGuard(tasks[i]) /\ PassedGuard(tasks[j]))
           => tasks[i].prefix # tasks[j].prefix
    /\ \A i \in DOMAIN tasks :
         /\ PassedGuard(tasks[i]) => tasks[i].prefix \in visited
         /\ tasks[i].pc = "sleep" => tasks[i].prefix \notin DOMAIN started
         /\ tasks[i].issued > 0 => tasks[i].prefix \in DOMAIN started

\* a fetch that was retried next to another call of its batch
C1_Witness ==
  /\ Batched
  /\ \E i, j \in DOMAIN tasks :
       /\ i # j
       /\ tasks[i].issued >= 2 /\ tasks[i].pc = "request"
       /\ started[tasks[i].prefix] = 1
       /\ tasks[j].issued >= 1

\* C2: in extractNames no prefix is in the queue and in processedPrefixes at
\* once, the queue holds no prefix twice, a prefix that leaves the queue is
\* marked visited in the same step, and a visited prefix never enters the
\* queue again.
C2_FrontierToVisitedOnce ==
  /\ [](prog = "final" =>
          /\ Range(queue) \cap visited = {}
          /\ NoDuplicates(queue))
  /\ [][prog = "final" =>
          /\ visited \subseteq visited'
          /\ \A p \in Range(queue) \ Range(queue') : p \in visited'
          /\ \A p \in visited : p \notin Range(queue')]_vars

\* children wait in the queue while their parent is visited
C2_Witness ==
  /\ prog = "final"
  /\ \E p \in visited : Len(p) = 2
  /\ \E i \in DOMAIN queue : Len(queue[i]) = 3

\* C3: under fair scheduling extractNames terminates whenever every answer is
\* an array, a 429/503 or another error: the loop ends with the queue empty
\* and no call in flight, also when every request is rate limited.
C3_Terminates ==
  <>(MalformedAnswer \/ (phase = "complete" /\ queue = <<>> /\ InFlight = {}))

\* the crawl ended although every request was rate limited
C3_Witness ==
  /\ prog = "final" /\ endpoint = "throttleAll"
  /\ phase = "complete" /\ totalRequests = N * (RetryLimit + 1)

\* C4: one fetch of makeRequest retries at most 5 times and issues at most 6
\* requests; rate limited at the 6th it returns the empty result: the call
\* ends normally and returns no children.
C4_RetryCap ==
  prog = "final" =>
    \A i \in DOMAIN tasks :
      /\ tasks[i].issued <= RetryLimit + 1
      /\ tasks[i].retryCount <= RetryLimit
      /\ tasks[i].issued > 0 => tasks[i].issued = tasks[i].retryCount + 1
      /\ tasks[i].pc = "backoff" => tasks[i].retryCount < RetryLimit
      /\ tasks[i].outcome = "skip" =>
           /\ tasks[i].pc = "done"
           /\ tasks[i].issued = RetryLimit + 1
           /\ tasks[i].next = <<>>

\* a fetch gave up after its 6th request
C4_Witness ==
  /\ prog = "final"
  /\ \E i \in DOMAIN tasks : tasks[i].outcome = "skip" /\ tasks[i].issued = 6

\* C5: fetchWithThrottle has a retry cap: no fetch issues more requests than
\* the cap of 5 retries allows.
C5_RetriesBounded ==
  prog = "optimized" =>
    \A i \in DOMAIN tasks : tasks[i].issued <= RetryLimit + 1

\* C6: every failure of one fetch is contained in extractNames: no call of a
\* batch throws and the loop is never left through the catch of main.
C6_FailuresContained ==
  prog = "final" =>
    /\ phase # "aborted"
    /\ \A i \in DOMAIN tasks : tasks[i].pc # "failed"

\* C7: at most MAX_CONCURRENCY calls are in flight in extractNames and at most
\* CONCURRENCY_LIMIT in processBatch, a call being in flight from its start
\* to its return, its delay and its backoff waits included.
C7_BoundedConcurrency ==
  /\ prog = "final" => Cardinality(InFlight) <= MAX_CONCURRENCY
  /\ prog = "optimized" => Cardinality(InFlight) <= CONCURRENCY_LIMIT

\* a full chunk is in flight while more prefixes wait
C7_Witness ==
  /\ prog = "optimized"
  /\ Cardinality(InFlight) = CONCURRENCY_LIMIT
  /\ queue # <<>>

\* C8: extractNamesEfficiently never has more than MAX_CONCURRENT requests
\* in flight.
C8_LimitedConcurrency ==
  prog = "efficient" =>
    Cardinality({i \in DOMAIN tasks : tasks[i].pc = "request"}) <= MAX_CONCURRENT

ShallowRun == prog = "final" /\ endpoint = "shallow"

\* C9 as stated: with k results for every prefix of length <= 2 and none for
\* longer ones, no prefix of length 3 is fetched and the crawl ends after
\* N + N*N requests.
C9_Original ==
  ShallowRun =>
    /\ \A p \in DOMAIN started : Len(p) <= 2
    /\ phase = "complete" => totalRequests = N + N * N

\* C9 amended: with that endpoint extractNames terminates after exactly
\* N + N*N + N*N*N requests: every prefix of length 1, 2 and 3 is fetched
\* once and no prefix of length 4 is enqueued or fetched.
C9_Amended ==
  /\ [](ShallowRun =>
          /\ \A p \in DOMAIN started \cup Range(queue) : Len(p) <= 3
          /\ totalRequests <= N + N * N + N * N * N
          /\ phase = "complete" =>
               /\ totalRequests = N + N * N + N * N * N
               /\ DOMAIN started = PrefixesUpTo(3)
               /\ \A p \in DOMAIN started : started[p] = 1)
  /\ <>(ShallowRun => phase = "complete")

\* the crawl ended after it fetched a prefix of length 3
C9_Witness ==
  /\ ShallowRun /\ phase = "complete"
  /\ \E p \in DOMAIN started : Len(p) = 3

EmptyRun == prog = "final" /\ endpoint = "empty"

\* C10: with an endpoint that returns an empty array for every prefix,
\* extractNames terminates with totalRequests = N: only the seeds are fetched
\* and no child is ever enqueued.
C10_EmptyEndpoint ==
  /\ [](EmptyRun =>
          /\ \A p \in Range(queue) \cup visited : Len(p) = 1
          /\ totalRequests <= N
          /\ phase = "complete" =>
               totalRequests = N /\ DOMAIN started = Range(Seeds))
  /\ <>(EmptyRun => phase = "complete")

\* the crawl of the empty endpoint ended
C10_Witness == EmptyRun /\ phase = "complete" /\ totalRequests = N

RECURSIVE Sum(_)
Sum(s) == IF s = <<>> THEN 0 ELSE Head(s) + Sum(Tail(s))

\* the endpoint that answers 429 to the first two requests of every fetch
ThrottledTwice == endpoint = "throttledTwice"

\* C11: in final-solution.js the n-th backoff wait of a fetch, n = 1, 2, ...,
\* lasts min(1000 * 2^n, 30000) ms, the attempt number starting at 1, so the
\* first wait lasts 2000 ms.  (makeRequest computes the wait from retryCount,
\* which starts at 0: the first wait lasts 1000 ms.)
C11_BackoffFromAttemptOne ==
  prog = "final" =>
    \A i \in DOMAIN tasks :
      \A n \in DOMAIN tasks[i].waits :
        tasks[i].waits[n] = Min(1000 * 2^n, 30000)

\* C12: in optimized-extractor.js, against the endpoint that answers 429 to
\* the first two requests for a prefix and then succeeds, a fetch never sends
\* more than 3 requests, and one that succeeded has sent exactly 3 and has
\* slept 4000 ms and then 8000 ms, 12000 ms in all.
C12_TwoBackoffs ==
  (prog = "optimized" /\ ThrottledTwice) =>
    \A i \in DOMAIN tasks :
      /\ tasks[i].issued <= 3
      /\ tasks[i].outcome = "ok" =>
           /\ tasks[i].issued = 3
           /\ tasks[i].waits = <<4000, 8000>>
           /\ Sum(tasks[i].waits) = 2000 * 2^1 + 2000 * 2^2

C12_Witness ==
  /\ prog = "optimized" /\ ThrottledTwice
  /\ \E i \in DOMAIN tasks :
       /\ tasks[i].outcome = "ok"
       /\ tasks[i].issued = 3
       /\ Sum(tasks[i].waits) = 12000

\* the record of a fetch of prefix that returned the two names the
\* "throttledTwice" endpoint gives on success
Succeeded(prefix) ==
  [prefix |-> prefix, outcome |-> "ok", results |-> Names(prefix, 2)]

\* in a run of final-solution.js against the "throttledTwice" endpoint no
\* fetch ends but with the success result, whose names are merged, and a
\* call that returned expands on it: it returns the children exactly when
\* its prefix is no longer than 2
C13_NeverSkipped ==
  (prog = "final" /\ ThrottledTwice) =>
    /\ \A f \in fetched :
         f = Succeeded(f.prefix) /\ Range(f.results) \subseteq uniqueNames
    /\ \A i \in DOMAIN tasks :
         /\ tasks[i].outcome \in {"none", "ok"}
         /\ tasks[i].outcome = "ok" =>
              /\ tasks[i].issued = 3
              /\ Succeeded(tasks[i].prefix) \in fetched
              /\ tasks[i].next # <<>> <=> Len(tasks[i].prefix) <= 2
    /\ Range(queue) \cup visited \subseteq PrefixesUpTo(3)

\* C13: against the endpoint that answers 429 to the first two requests for
\* every prefix and then succeeds, extractNames of final-solution.js never
\* skips a prefix, and it completes with every prefix that entered the
\* frontier (all of length 1 to 3) fetched successfully and merged.
C13_FetchedAfterThrottling ==
  /\ []C13_NeverSkipped
  /\ (prog = "final" /\ ThrottledTwice)
       ~> (/\ phase = "complete"
           /\ visited = PrefixesUpTo(3)
           /\ \A p \in visited : Succeeded(p) \in fetched)

C13_Witness ==
  /\ prog = "final" /\ ThrottledTwice /\ phase = "complete"
  /\ \E f \in fetched :
       Len(f.prefix) = 3 /\ f.outcome = "ok" /\ f.results # <<>>

\* C14: for every prefix length and every result size, shouldExpandPrefix
\* returns true exactly when the results are non-empty and the prefix is
\* shorter than 3, or there are at least 10 results and the prefix is no
\* longer than 2; it returns false otherwise.
C14_ExpansionRule ==
  (prog = "rules" /\ ret # <<>>) =>
    LET p == Len(args.prefix)
        r == Len(args.results)
    IN ret = << (r > 0 /\ p < 3) \/ (r >= 10 /\ p <= 2) >>

C14_Witness ==
  /\ prog = "rules"
  /\ Len(args.prefix) = 2 /\ Len(args.results) = 1
  /\ ret = <<TRUE>>

\* next holds the children of prefix: prefix + c for every letter c of the
\* alphabet, each once, and nothing else
ExactChildren(next, prefix) ==
  /\ Len(next) = N
  /\ \A c \in 1..N :
       Cardinality({j \in DOMAIN next : next[j] = prefix \o <<ALPHABET[c]>>}) = 1

\* C15: in both batched crawls, the array a processPrefix call returns is
\* empty or holds exactly the children of its prefix, each once; and the
\* children a call returned are appended to the frontier: they are never
\* left behind by a crawl that stopped awaiting its batch.  (They are when
\* another call of the batch threw on a malformed body, see C6.)
C15_ChildrenAppended ==
  Batched =>
    \A i \in DOMAIN tasks :
      /\ tasks[i].next # <<>> => ExactChildren(tasks[i].next, tasks[i].prefix)
      /\ (tasks[i].pc = "done" /\ tasks[i].next # <<>>) => phase = "await"

\* the prefixes whose fetch ended with a failure other than a 429/503
Errored == {f.prefix : f \in {g \in fetched : g.outcome = "error"}}

\* p is prefix extended by one letter
ChildOf(p, prefix) == Len(p) = Len(prefix) + 1 /\ SubSeq(p, 1, Len(prefix)) = prefix

\* what holds of a prefix of final-solution.js whose fetch failed: the fetch
\* returned the empty array, the prefix is visited, one fetch was started for
\* it, its call has returned without children and sends nothing more, and no
\* child of it is queued, in a batch or visited
C16_ErrorIsFinal ==
  prog = "final" =>
    \A f \in fetched :
      f.outcome = "error" =>
        /\ f.results = <<>>
        /\ f.prefix \in visited
        /\ started[f.prefix] = 1
        /\ \A i \in DOMAIN tasks :
             /\ tasks[i].prefix = f.prefix =>
                  tasks[i].pc = "done" /\ tasks[i].next = <<>>
             /\ ~ChildOf(tasks[i].prefix, f.prefix)
        /\ \A p \in Range(queue) \cup visited : ~ChildOf(p, f.prefix)

\* the step that ends a fetch with such a failure sends no request and
\* merges no name, and afterwards no request is sent for the prefix
C16_ErrorStep ==
  prog = "final" =>
    /\ Errored # Errored' =>
         uniqueNames' = uniqueNames /\ totalRequests' = totalRequests
    /\ \A i \in DOMAIN tasks :
         (tasks[i].prefix \in Errored /\ i \in DOMAIN tasks') =>
           tasks'[i].issued = tasks[i].issued

\* C16: in final-solution.js a fetch error that is no 429/503 ends the fetch
\* at once with the empty result and without another request; the prefix
\* stays visited, is not fetched again, adds no name and enqueues no child.
C16_TransientError == []C16_ErrorIsFinal /\ [][C16_ErrorStep]_vars

C16_Witness ==
  /\ prog = "final" /\ phase = "loop" /\ queue # <<>>
  /\ \E f \in fetched : f.outcome = "error" /\ Len(f.prefix) = 1

\* a step of final-solution.js leaves the queue alone, or removes a batch
\* from its head while no batch is outstanding, the calls of the new batch
\* being those prefixes in queue order, or appends at its tail, once every
\* call of the batch has returned, what the calls returned
C17_QueueStep ==
  prog = "final" =>
    \/ queue' = queue
    \/ /\ tasks = <<>>
       /\ \E n \in 1..Len(queue) :
            /\ queue' = SubSeq(queue, n + 1, Len(queue))
            /\ Len(tasks') = n
            /\ \A i \in 1..n : tasks'[i].prefix = queue[i]
    \/ /\ Len(queue') > Len(queue)
       /\ SubSeq(queue', 1, Len(queue)) = queue
       /\ \A i \in DOMAIN tasks : tasks[i].pc = "done"
       /\ \A j \in Len(queue) + 1..Len(queue') :
            \E i \in DOMAIN tasks : ChildOf(queue'[j], tasks[i].prefix)
       /\ \A i \in DOMAIN tasks : \A c \in DOMAIN tasks[i].next :
            \E j \in Len(queue) + 1..Len(queue') : queue'[j] = tasks[i].next[c]
       /\ tasks' = <<>>

\* while a batch is outstanding no child of one of its members is queued
C17_NotBeforeBatchEnd ==
  prog = "final" =>
    \A i \in DOMAIN tasks : \A p \in Range(queue) : ~ChildOf(p, tasks[i].prefix)

\* C17: the frontier of extractNames is first in, first out across batches:
\* prefixes leave at the head in queue order and enter at the tail, and the
\* children of a batch enter only when every member has returned and before
\* the next batch is drawn.
C17_FifoAcrossBatches == []C17_NotBeforeBatchEnd /\ [][C17_QueueStep]_vars

C17_Witness ==
  /\ prog = "final" /\ phase = "loop"
  /\ Len(queue) > 1
  /\ Len(queue[1]) = 2 /\ Len(queue[2]) = 3

\* extractNames is at its completion point
FS_Completed == prog = "final" /\ phase = "complete"

\* the step that takes extractNames to its completion point starts where
\* every call of the batch has returned and leaves the queue empty
C18_CompletionStep ==
  (~FS_Completed /\ FS_Completed') =>
    /\ \A i \in DOMAIN tasks : tasks[i].pc = "done"
    /\ queue' = <<>>

\* C18: extractNames is at its completion point only with the queue empty
\* and no fetch in flight, and it gets there from a batch whose calls have
\* all returned; the final save holds every name.
C18_CompletesWhenDrained ==
  /\ [](FS_Completed =>
          queue = <<>> /\ InFlight = {} /\ tasks = <<>> /\ snapshot = uniqueNames)
  /\ [][C18_CompletionStep]_vars

C18_Witness ==
  /\ FS_Completed
  /\ totalRequests > N
  /\ uniqueNames # {}

\* a step of a batched crawl removes no name from uniqueNames, so its size
\* does not decrease, and a fetch that ends with names that are all members
\* already leaves the set as it was
C19_MergeStep ==
  Batched =>
    /\ uniqueNames \subseteq uniqueNames'
    /\ Cardinality(uniqueNames) <= Cardinality(uniqueNames')
    /\ \A f \in fetched' \ fetched :
         Range(f.results) \subseteq uniqueNames => uniqueNames' = uniqueNames

\* C19: uniqueNames never loses an entry: over every step of every run its
\* size does not decrease, a name once added stays a member, and merging
\* names that are members already leaves the set unchanged.
C19_NeverLosesAName == [][C19_MergeStep]_vars

\* two fetches have returned a common name, which is merged
C19_Witness ==
  /\ Batched
  /\ \E f, g \in fetched :
       /\ f.prefix # g.prefix
       /\ Range(f.results) \cap Range(g.results) # {}
       /\ Range(f.results) \cup Range(g.results) \subseteq uniqueNames

\* the names of the arrays that successful fetches have returned so far
ReturnedNames == UNION {Range(f.results) : f \in {g \in fetched : g.outcome = "ok"}}

\* C20: in final-solution.js, under every interleaving of the calls of a
\* batch, uniqueNames is the union of the arrays the successful fetches have
\* returned, a name returned for several prefixes being one member; so is
\* the set saved when the crawl completes.
C20_UnionOfResults ==
  prog = "final" =>
    /\ uniqueNames = ReturnedNames
    /\ Cardinality(uniqueNames) = Cardinality(ReturnedNames)
    /\ phase = "complete" => snapshot = ReturnedNames

\* two calls of one batch have both merged an array holding a common name
C20_Witness ==
  /\ prog = "final" /\ phase = "await"
  /\ \E i, j \in DOMAIN tasks :
       /\ i # j /\ tasks[i].outcome = "ok" /\ tasks[j].outcome = "ok"
       /\ \E f, g \in fetched :
            /\ f.prefix = tasks[i].prefix /\ g.prefix = tasks[j].prefix
            /\ Range(f.results) \cap Range(g.results) # {}

\* C21: the count of new names that the merge of processPrefix computes
\* (newNames.length) is the increase of the size of uniqueNames caused by the
\* merge, for every result array, one that repeats a name included.  (The
\* filter runs before any add, so a new name that the array holds twice is
\* counted twice and added once.)
C21_CountIsIncrease ==
  (prog = "merge" /\ ret # <<>>) =>
    ret[1] = Cardinality(uniqueNames) - Cardinality(args.names)

\* C22: against an error-free endpoint that answers a query with at most 10
\* of the names of its vocabulary that start with the query, extractNames of
\* final-solution.js ends with the whole vocabulary in uniqueNames.  (It
\* does not when more than 10 names share their first three letters: no
\* prefix longer than 3 is queried.)
C22_WholeVocabulary ==
  (prog = "final" /\ endpoint = "vocabulary" /\ phase = "complete") =>
    uniqueNames = Range(VocabularySeq)

\* the calls whose request is sent and not yet answered
Outstanding == {i \in DOMAIN tasks : tasks[i].pc = "request"}

\* C23: in every reachable state of both batched crawls totalRequests is the
\* number of HTTP requests sent so far, by the probes of main and by the
\* crawl: those the endpoint has answered and those still outstanding, every
\* retry being one request; the requests one live call has sent never
\* exceed it; and no step decreases it.
C23_CountsEveryRequest ==
  /\ [](Batched =>
          /\ totalRequests = received + Cardinality(Outstanding)
          /\ \A i \in DOMAIN tasks : tasks[i].issued <= totalRequests)
  /\ [][Batched => totalRequests' >= totalRequests]_vars

\* a fetch has been retried and answered again
C23_Witness ==
  /\ Batched
  /\ \E i \in DOMAIN tasks : tasks[i].issued >= 2 /\ tasks[i].pc = "done"
  /\ Crawling /\ totalRequests > probed + Cardinality(visited)

\* the one-letter prefixes
SingleLetters == {<<ALPHABET[c]>> : c \in 1..N}

\* p was enqueued as a child: it is q + c for a prefix q whose fetch has
\* returned a non-empty result and a letter c of the alphabet
EnqueuedAsChild(p) ==
  \E f \in fetched :
    /\ f.outcome = "ok" /\ f.results # <<>>
    /\ \E c \in 1..N : p = Append(f.prefix, ALPHABET[c])

\* every prefix of final-solution.js that is queued, in a batch or visited
\* is a seed or was enqueued as a child
C24_Provenance ==
  prog = "final" =>
    \A p \in Range(queue) \cup visited \cup {tasks[i].prefix : i \in DOMAIN tasks} :
      p \in SingleLetters \/ EnqueuedAsChild(p)

\* the seeds enter the queue at the start only: what a step adds to the
\* queue is longer than one letter
C24_SeededOnce ==
  prog = "final" =>
    \A j \in DOMAIN queue' :
      (j > Len(queue) \/ queue'[j] \notin Range(queue)) => Len(queue'[j]) > 1

\* C24: extractNames starts with the one-letter prefixes, each once, in its
\* queue and nothing visited, never seeds again, and every prefix it fetches
\* is a seed or q + c for a prefix q fetched before with a non-empty result.
C24_EnqueuedBeforeFetched ==
  /\ (prog = "final" =>
        /\ Range(queue) = SingleLetters /\ Len(queue) = N
        /\ visited = {} /\ fetched = {})
  /\ []C24_Provenance
  /\ [][C24_SeededOnce]_vars

C24_Witness ==
  /\ prog = "final"
  /\ \E p \in visited :
       /\ Len(p) = 3 /\ EnqueuedAsChild(p)
       /\ \E f \in fetched : f.prefix = p

\* while a call of final-solution.js sleeps in backoff, every other call of
\* the batch that has not returned can take its next step: send its request,
\* receive its answer, or retry
C25_OthersCanStep ==
  prog = "final" =>
    \A i, j \in DOMAIN tasks :
      (i # j /\ tasks[i].pc = "backoff") =>
        /\ tasks[j].pc = "sleep" => ENABLED FS_Request(j)
        /\ tasks[j].pc = "request" => ENABLED FS_Answer(j)
        /\ tasks[j].pc = "backoff" => ENABLED FS_Retry(j)

\* a step taken by another call leaves the sleeping call asleep
C25_SleeperUntouched ==
  prog = "final" =>
    \A i \in DOMAIN tasks :
      (tasks[i].pc = "backoff" /\ tasks' # <<>> /\ tasks'[i].pc # "backoff") =>
        (tasks'[i].pc = "request" /\ tasks'[i].issued = tasks[i].issued + 1)

\* C25: a backoff wait suspends the retrying call only: the other calls of
\* the batch keep taking steps and return while it sleeps.
C25_BackoffSuspendsOneTask == []C25_OthersCanStep /\ [][C25_SleeperUntouched]_vars

\* one call sleeps in backoff before its first retry while another call of
\* the batch, whose request was sent, has returned with names
C25_Witness ==
  /\ prog = "final" /\ endpoint = "any" /\ phase = "await"
  /\ \E i, j \in DOMAIN tasks :
       /\ tasks[i].pc = "backoff" /\ tasks[i].issued = 1
       /\ tasks[j].pc = "done" /\ tasks[j].outcome = "ok" /\ tasks[j].next # <<>>

\* the waits of a fetch of optimized-extractor.js, and of final-solution.js
OE_ExpectedWaits == <<4000, 8000, 16000>>
FS_ExpectedWaits == <<1000, 2000, 4000, 8000, 16000>>

\* C26: no backoff wait exceeds 30000 ms and the waits of one fetch never
\* decrease; those of fetchWithThrottle are 4000, 8000, 16000 and then 30000
\* ms each, those of makeRequest 1000, 2000, 4000, 8000, 16000 ms, at most
\* five and all below the cap.
C26_WaitsCappedAndGrowing ==
  Batched =>
    \A i \in DOMAIN tasks :
      LET w == tasks[i].waits
      IN /\ \A n \in DOMAIN w : w[n] <= 30000
         /\ \A m, n \in DOMAIN w : m <= n => w[m] <= w[n]
         /\ prog = "optimized" =>
              \A n \in DOMAIN w :
                w[n] = IF n <= 3 THEN OE_ExpectedWaits[n] ELSE 30000
         /\ prog = "final" =>
              /\ Len(w) <= 5
              /\ \A n \in DOMAIN w : w[n] = FS_ExpectedWaits[n] /\ w[n] < 30000

\* a fetch of optimized-extractor.js has waited at the cap twice
C26_Witness ==
  /\ prog = "optimized"
  /\ \E i \in DOMAIN tasks :
       /\ Len(tasks[i].waits) >= 5
       /\ tasks[i].waits[4] = 30000 /\ tasks[i].waits[5] = 30000

\* the prefixes a crawl holds: queued, collected for the next round, in the
\* batch, or visited
Held ==
  Range(queue) \cup Range(nextBatch) \cup visited
    \cup {tasks[i].prefix : i \in DOMAIN tasks}
    \cup UNION {Range(tasks[i].next) : i \in DOMAIN tasks}

\* C27: in every reachable state of both batched crawls, whatever the
\* endpoint answers, every prefix queued, returned as a child, in a batch or
\* visited has 1 to 3 letters, so at most 26 + 26^2 + 26^3 prefixes (with
\* the alphabet of the model, N + N^2 + N^3) are visited.
C27_DepthAtMostThree ==
  (Batched /\ Crawling) =>
    /\ \A p \in Held : Len(p) >= 1 /\ Len(p) <= 3
    /\ Cardinality(visited) <= N + N * N + N * N * N

\* a three-letter prefix whose fetch returned names is visited and nothing
\* is queued behind it
C27_Witness ==
  /\ Batched /\ phase = "complete"
  /\ \E f \in fetched : Len(f.prefix) = 3 /\ f.results # <<>>
  /\ Cardinality(visited) = N + N * N + N * N * N

\* a step of final-solution.js that changes the snapshot writes uniqueNames
\* as it is at that moment, and the step does not change uniqueNames
C28_SnapshotStep ==
  (prog = "final" /\ snapshot' # snapshot) =>
    snapshot' = uniqueNames /\ uniqueNames' = uniqueNames

\* C28: every snapshot saveProgress writes is uniqueNames as it is at the
\* call, and once extractNames has completed the last snapshot written is
\* the final uniqueNames.
C28_SnapshotIsResultSet ==
  /\ [][C28_SnapshotStep]_vars
  /\ [](FS_Completed => snapshot = uniqueNames)
  /\ [](prog = "final" => snapshot \subseteq uniqueNames)

\* the checkpoint at 50 requests has written the names found so far, and
\* the crawl goes on
C28_Witness ==
  /\ prog = "final" /\ phase = "loop" /\ queue # <<>>
  /\ totalRequests = CheckpointEvery
  /\ snapshot # {} /\ snapshot = uniqueNames

\* the requests the calls of the current batch have sent
BatchRequests == Sum([i \in DOMAIN tasks |-> tasks[i].issued])

\* C29: in final-solution.js a checkpoint is taken every 50 requests: when
\* totalRequests has reached or passed a multiple of 50 during a batch, the
\* step that ends the batch saves uniqueNames before the next batch is
\* drawn.  (The code saves only when totalRequests is a multiple of 50 at the
\* end of the batch.)
C29_CheckpointEvery50 ==
  [][(prog = "final" /\ phase = "await" /\ phase' \in {"loop", "complete"}) =>
       LET before == totalRequests - BatchRequests
       IN (before \div CheckpointEvery < totalRequests \div CheckpointEvery) =>
            snapshot' = uniqueNames]_vars

\* C30: shouldExpandPrefix, the rule of processPrefix in final-solution.js
\* and the rule of exploreAllPrefixes in api-stats-counter.js take the same
\* decision for every prefix and every result, and that decision is the one
\* of the first branch of shouldExpandPrefix alone (results non-empty and
\* prefix shorter than 3): the branch for capped results changes nothing.
C30_RulesAgree ==
  (prog = "agree" /\ ret # <<>>) =>
    /\ ret[1] = ret[2]
    /\ ret[2] = ret[3]
    /\ ret[1] = (Len(args.results) > 0 /\ Len(args.prefix) < 3)

\* the rules were asked about a capped result for a two-letter prefix, where
\* both branches of shouldExpandPrefix apply
C30_Witness ==
  /\ prog = "agree"
  /\ Len(args.prefix) = 2 /\ Len(args.results) >= 10
  /\ ret = <<TRUE, TRUE, TRUE>>

\* a call of the batch starts in this step: it is new and waits for its
\* first request
StartsFetch ==
  \E i \in DOMAIN tasks' :
    /\ tasks'[i].pc = "sleep"
    /\ i \notin DOMAIN tasks \/ tasks[i].pc # "sleep"

C31_NoDrawInFlight ==
  (prog = "final" /\ InFlight # {}) => ~ENABLED FS_DrawBatch

C31_BarrierStep ==
  prog = "final" =>
    /\ (Len(queue') < Len(queue) \/ StartsFetch) => InFlight = {}
    /\ (phase = "await" /\ phase' \in {"loop", "complete"}) => InFlight = {}

\* C31: extractNames has a batch barrier: while a fetch of the current batch
\* is in flight, one that sleeps in a backoff included, no prefix leaves the
\* queue, no fetch starts and the loop does not go on, even when fewer than
\* MAX_CONCURRENCY fetches are in flight and the queue is not empty.
C31_BatchBarrier == []C31_NoDrawInFlight /\ [][C31_BarrierStep]_vars

\* one call of the batch has returned, another sleeps in a backoff, and the
\* queue holds a prefix that has to wait
C31_Witness ==
  /\ prog = "final" /\ phase = "await"
  /\ queue # <<>>
  /\ Cardinality(InFlight) < MAX_CONCURRENCY
  /\ \E i \in DOMAIN tasks : tasks[i].pc = "backoff"
  /\ \E i \in DOMAIN tasks : tasks[i].pc = "done"
  /\ ~ENABLED FS_DrawBatch

SingleLength(s) == \A i, j \in DOMAIN s : Len(s[i]) = Len(s[j])

\* the list processBatch works on: the chunk given to Promise.all, then the
\* prefixes not yet cut into a chunk
CurrentList == [i \in DOMAIN tasks |-> tasks[i].prefix] \o queue

\* the fetch of prefix has ended
Completed(prefix) == \E f \in fetched : f.prefix = prefix

C32_SingleLevel ==
  (prog = "optimized" /\ Crawling) =>
    /\ SingleLength(CurrentList)
    /\ SingleLength(nextBatch)
    /\ \A i \in DOMAIN CurrentList : \A j \in DOMAIN nextBatch :
         Len(nextBatch[j]) = Len(CurrentList[i]) + 1
    /\ \A i \in DOMAIN tasks :
         tasks[i].issued > 0 =>
           \A p \in visited :
             Len(p) < Len(tasks[i].prefix) => Completed(p)

\* a level begins only when the list of the level before is used up and
\* every call of its last chunk has returned
C32_LevelStep ==
  (prog = "optimized" /\ Crawling /\ queue' # <<>> /\ CurrentList # <<>>
     /\ Len(queue'[1]) > Len(CurrentList[1])) =>
    queue = <<>> /\ InFlight = {}

\* C32: in extractAllNames of optimized-extractor.js every list given to
\* processBatch holds prefixes of one length n, the children it collects have
\* length n + 1, and a fetch of a prefix of length n + 1 starts only after
\* every fetch of a prefix of length n has ended: the crawl goes level by level.
C32_LevelByLevel == []C32_SingleLevel /\ [][C32_LevelStep]_vars

\* the second chunk of the level of two-letter prefixes is in flight while
\* the children of the first chunk wait in nextBatch
C32_Witness ==
  /\ prog = "optimized" /\ phase = "await"
  /\ nextBatch # <<>> /\ Len(nextBatch[1]) = 3
  /\ \E i \in InFlight : Len(tasks[i].prefix) = 2 /\ tasks[i].issued > 0
  /\ \A p \in visited : Len(p) = 1 => Completed(p)

Queued == prog \in {"final", "optimized", "sequential"}

\* the prefixes that wait to be fetched: the queue, the children collected
\* for the next level, and the children a returned call hands to the loop
Frontier == queue \o nextBatch \o Flatten([i \in DOMAIN tasks |-> tasks[i].next])

\* C33: in the three crawls that keep a queue (extractNames of
\* final-solution.js, extractAllNames of optimized-extractor.js and the
\* sequential extractAllNames of unnamed/part_002, which has no guard) the
\* frontier never holds a prefix twice nor a prefix that was drawn before, no
\* prefix is fetched twice, and no call of processPrefix returns at its
\* visited guard.
C33_EnqueuedOnce ==
  (Queued /\ Crawling) =>
    /\ NoDuplicates(Frontier)
    /\ \A p \in Range(Frontier) :
         /\ p \notin visited
         /\ p \notin DOMAIN started
         /\ \A i \in DOMAIN tasks : tasks[i].prefix # p
    /\ \A i, j \in DOMAIN tasks : i # j => tasks[i].prefix # tasks[j].prefix
    /\ \A p \in DOMAIN started : started[p] = 1
    /\ \A i \in DOMAIN tasks : tasks[i].pc = "sleep" \/ tasks[i].issued > 0

\* the sequential crawl has fetched prefixes of one and of two letters, and
\* children of three letters wait in its queue behind shorter prefixes
C33_Witness ==
  /\ prog = "sequential"
  /\ Len(queue) > 1
  /\ Len(queue[1]) = 2 /\ Len(queue[Len(queue)]) = 3
  /\ \E f \in fetched : Len(f.prefix) = 2

\* the endpoints of the model that never fail and whose answer depends on
\* the prefix alone
PrefixOnly == endpoint \in {"empty", "shallow", "vocabulary"}

\* the array such an endpoint returns for prefix
Reply(prefix) == (CHOOSE a \in Answers(prefix) : TRUE).data

\* the run of extractNames in which every call of processPrefix returns
\* before the next one starts: q is the queue, seen the visited set, names
\* the result set and n the number of requests
RECURSIVE OneByOne(_, _, _, _)
OneByOne(q, seen, names, n) ==
  IF q = <<>> THEN [visited |-> seen, names |-> names, requests |-> n]
  ELSE LET p == Head(q)
           results == Reply(p)
       IN OneByOne(Tail(q) \o (IF FS_Expands(p, results) THEN Children(p)
                               ELSE <<>>),
                   seen \cup {p},
                   AddAll(names, FS_newNames(results, names)),
                   Counted(n))

\* C34: with an endpoint that never fails and whose answer depends on the
\* prefix alone, every run of extractNames, whatever the order in which the
\* fetches of a batch are answered, ends with the visited set, the result
\* set and the request count of the run that fetches one prefix at a time.
C34_OrderIndependent ==
  (prog = "final" /\ PrefixOnly /\ phase = "complete") =>
    LET r == OneByOne(Seeds, {}, {}, 0)
    IN /\ visited = r.visited
       /\ uniqueNames = r.names
       /\ totalRequests = r.requests
       /\ snapshot = r.names

\* a run against the vocabulary has ended: its batches of three fetches had
\* several orders of completion, and names were found at every level
C34_Witness ==
  /\ prog = "final" /\ endpoint = "vocabulary" /\ phase = "complete"
  /\ Cardinality(visited) > MAX_CONCURRENCY
  /\ Cardinality(uniqueNames) > 1
  /\ \E f \in fetched : Len(f.prefix) = 3 /\ f.results # <<>>

\* C35: extractNamesEfficiently terminates for every endpoint that never
\* fails, so the prefixes it collects for a next batch have a bounded length:
\* against the "endless" endpoint none is longer than the deepest level the
\* model lets the crawl fetch.
C35_DepthBounded ==
  (prog = "efficient" /\ endpoint = "endless") =>
    \A i \in DOMAIN nextBatch : Len(nextBatch[i]) <= MaxDepth

C36_AtMostOneActive ==
  /\ prog = "part_002" => activeRequests = 0
  /\ prog = "sequential" =>
       /\ activeRequests \in {0, 1}
       /\ activeRequests < MAX_CONCURRENT
       /\ \A i \in DOMAIN tasks : tasks[i].pc # "wait"
       /\ activeRequests = Cardinality(InFlight)
       /\ Len(tasks) <= 1

\* processPrefix returns: the counter goes down by one, however the call ended
C36_ExitStep ==
  (prog = "sequential" /\ tasks # <<>> /\ tasks' # <<>>
     /\ tasks[1].pc \in InFlightPcs /\ tasks'[1].pc = "done") =>
    /\ activeRequests = 1
    /\ activeRequests' = 0

\* C36: determineAPILimits leaves activeRequests at 0, and in the sequential
\* crawl of unnamed/part_002 it is 0 between two calls of processPrefix and 1 while a call is under way, so it
\* never reaches MAX_CONCURRENT and the wait loop of processPrefix is never
\* entered; every exit of processPrefix brings it back to 0, the exit through
\* the catch block included.
C36_ActiveRequests == []C36_AtMostOneActive /\ [][C36_ExitStep]_vars

\* a call of processPrefix has left through its catch block (the body was no
\* array), after an earlier call had returned normally
C36_Witness ==
  /\ prog = "sequential"
  /\ tasks # <<>> /\ tasks[1].pc = "done" /\ tasks[1].outcome = "malformed"
  /\ activeRequests = 0
  /\ \E f \in fetched : f.outcome = "ok"

====
